---- MODULE Spec2Model ----
(***************************************************************************)
(* DHCP client of Ethercard_ESP (src/Ethercard_ESP/dhcp.cpp): the state    *)
(* machine DhcpStateMachine, the encoders send_dhcp_message / dhcpRelease, *)
(* the option scanners, and the entry points dhcpSetup, dhcpRelease and    *)
(* dhcpAddOptionCallback, over the shared packet buffer gPB.               *)
(*                                                                         *)
(* A uint32_t is a pair <<hi, lo>> of 16-bit halves (value hi*2^16 + lo);  *)
(* all arithmetic on it is modulo 2^32.  An IPv4 address is a tuple of 4   *)
(* octets.  The buffer is modelled by the header fields the client reads   *)
(* or writes and by the octets from the magic cookie (offset AREA_P) on.   *)
(***************************************************************************)
EXTENDS Integers, Sequences, FiniteSets, TLC

\* ---------------------------------------------------------------- bounds
\* clock advances in one behaviour of Spec
MaxAdvance == 1
\* calls of dhcpSetup, dhcpRelease and dhcpAddOptionCallback in one behaviour
MaxCalls == 1
\* clock advances in one behaviour of SpecTimer
MaxTimerAdvance == 2
\* clock advances in one behaviour of SpecQuiet
MaxQuietAdvance == 3
\* calls of dhcpAddOptionCallback in one behaviour of SpecOption
MaxOptionCalls == 2
\* calls of dhcpSetup and dhcpRelease in one behaviour of SpecRelease
MaxSessionCalls == 2
MaxTickAdvance == 2
\* calls of entry points in SpecLive
MaxLiveCalls == 2
\* octets from the cookie on of a received message (300-octet BOOTP minimum)
BOOTP_AREA_LEN == 64

\* --------------------------------------------------- program constants
DHCP_STATE_INIT == "INIT"
DHCP_STATE_SELECTING == "SELECTING"
DHCP_STATE_REQUESTING == "REQUESTING"
DHCP_STATE_BOUND == "BOUND"
DHCP_STATE_RENEWING == "RENEWING"
DHCP_STATE_RELEASING == "RELEASING"
DHCP_STATE_RELEASED == "RELEASED"

DHCP_DISCOVER == 1
DHCP_OFFER == 2
DHCP_REQUEST == 3
DHCP_ACK == 5
DHCP_NAK == 6
DHCP_RELEASE == 7

DHCP_SERVER_PORT == 67
DHCP_CLIENT_PORT == 68
DHCP_HOSTNAME_MAX_LEN == 32
DHCP_HTYPE_ETHER == 1

DHCP_OPT_SUBNET_MASK == 1
DHCP_OPT_TIME_OFFSET == 2
DHCP_OPT_ROUTERS == 3
DHCP_OPT_TIME_SERVERS == 4
DHCP_OPT_DOMAIN_NAME_SERVERS == 6
DHCP_OPT_HOSTNAME == 12
DHCP_OPT_NTP_SERVERS == 42
DHCP_OPT_REQUESTED_ADDRESS == 50
DHCP_OPT_LEASE_TIME == 51
DHCP_OPT_MESSAGE_TYPE == 53
DHCP_OPT_SERVER_IDENTIFIER == 54
DHCP_OPT_PARAMETER_REQUEST_LIST == 55
DHCP_OPT_RENEWAL_TIME == 58
DHCP_OPT_CLIENT_IDENTIFIER == 61
DHCP_OPT_DOMAIN_SEARCH_LIST == 119
DHCP_OPT_END == 255

\* minimum frame length accepted by dhcp_received_message_type
MIN_DHCP_LEN == 70
\* sizeof(DHCPdata)
DHCP_DATA_SIZE == 236
\* net.h: offset of the UDP payload in an Ethernet/IPv4/UDP frame
UDP_DATA_P == 42
\* offset of the magic cookie: gPB + UDP_DATA_P + sizeof(DHCPdata)
AREA_P == UDP_DATA_P + DHCP_DATA_SIZE
\* octets of the buffer modelled from AREA_P on
AREA_LEN == BOOTP_AREA_LEN

\* ------------------------------------------------------ 32-bit values
H16 == 65536

U32Zero == <<0, 0>>
\* #define DHCP_REQUEST_TIMEOUT 10000
DHCP_REQUEST_TIMEOUT == <<0, 10000>>
\* #define DHCP_INFINITE_LEASE 0xffffffff
DHCP_INFINITE_LEASE == <<65535, 65535>>

Add32(a, b) ==
  LET lo == a[2] + b[2]
  IN  <<(a[1] + b[1] + (lo \div H16)) % H16, lo % H16>>

Sub32(a, b) ==
  LET lo == a[2] - b[2]
      borrow == IF lo < 0 THEN 1 ELSE 0
  IN  <<(a[1] - b[1] - borrow + 2 * H16) % H16, (lo + H16) % H16>>

Gt32(a, b) == a[1] > b[1] \/ (a[1] = b[1] /\ a[2] > b[2])

Ge32(a, b) == a = b \/ Gt32(a, b)

\* a span of real time in milliseconds: its low 32 bits, and whether it has
\* reached 2^32 ms
NoTime == [ms |-> U32Zero, over |-> FALSE]

\* the span e after d more milliseconds
Later(e, d) ==
  [ms |-> Add32(e.ms, d), over |-> e.over \/ Gt32(e.ms, Add32(e.ms, d))]

\* leaseTime = (leaseTime << 8) + octet
Shl8Add(a, octet) ==
  LET lo == (a[2] % 256) * 256 + octet
  IN  <<((a[1] % 256) * 256 + (a[2] \div 256)) % H16, lo>>

\* leaseTime *= 1000
Mul1000(a) ==
  LET lo == a[2] * 1000
  IN  <<(a[1] * 1000 + (lo \div H16)) % H16, lo % H16>>

\* --------------------------------------------------------- addresses
IpZero == <<0, 0, 0, 0>>
allOnes == <<255, 255, 255, 255>>
mymac == <<170, 187, 204, 221, 238, 255>>

\* addresses used by the modelled servers
IpOffered == <<192, 168, 1, 50>>
IpServer == <<192, 168, 1, 1>>
IpServer2 == <<10, 0, 0, 1>>
IpMask == <<255, 255, 255, 0>>
IpDns == <<8, 8, 8, 8>>

\* ------------------------------------------------------------ hostname
\* static char hostname[32] = "Arduino-ENC28j60-00"
HostnameDefault ==
  <<65, 114, 100, 117, 105, 110, 111, 45, 69, 78, 67, 50, 56, 106, 54, 48, 45, 48, 48>>

PadZero(s, n) == [i \in 1..n |-> IF i <= Len(s) THEN s[i] ELSE 0]

\* strlen on the 32-octet storage
StrLen(h) ==
  IF \E i \in 1..Len(h) : h[i] = 0
  THEN (CHOOSE i \in 1..Len(h) : h[i] = 0 /\ \A j \in 1..(i - 1) : h[j] # 0) - 1
  ELSE Len(h)

toAsciiHex(b) ==
  LET c == b % 16
  IN  IF c <= 9 THEN c + 48 ELSE c + 55

\* ------------------------------------------------------------- state
VARIABLES
  dhcpState,                 \* EtherCard::dhcpState
  currentXid,                \* static uint32_t currentXid
  stateTimer,                \* static uint32_t stateTimer
  leaseStart,                \* static uint32_t leaseStart
  leaseTime,                 \* static uint32_t leaseTime
  myip, netmask, broadcastip, gwip, dhcpip, dnsip, hisip,
  using_dhcp,
  hostname,                  \* static char hostname[32]
  dhcpCustomOptionNum,
  dhcpCustomOptionCallback,
  gPB,                       \* ether.buffer, the shared packet buffer
  now,                       \* millis()
  nAdv,                      \* clock advances so far
  nCalls,                    \* calls of the entry points so far
  tx,                        \* message handed to udpTransmit by the last step
  rx,                        \* the buffer as the last tick found it
  last,                      \* the last operation, its input and result
  calls,                     \* callback invocations of the last step
  crashed,                   \* the device faulted on a null callback
  beyond,                    \* the non-zero octets in memory after hostname[]
  elapsed                    \* real time since stateTimer and leaseStart were set

config == <<myip, netmask, broadcastip, gwip, dhcpip, dnsip, hisip>>
session == <<dhcpState, currentXid, stateTimer, leaseStart, leaseTime>>
options == <<hostname, dhcpCustomOptionNum, dhcpCustomOptionCallback>>
vars == <<session, config, options, using_dhcp, gPB, now, nAdv, nCalls, tx, rx, last,
          calls, crashed, elapsed, beyond>>

NULL == <<>>
NoCallback == "NULL"
NoMsg == [len |-> 0]
NoBuf == [len |-> 0]

\* ----------------------------------------------------- packet buffer
Cookie == <<99, 130, 83, 99>>

\* offsets of the fields of the frame (net.h and DHCPdata)
UDP_SRC_PORT_L_P == 35
XID_P == UDP_DATA_P + 4
CIADDR_P == UDP_DATA_P + 12
YIADDR_P == UDP_DATA_P + 16
SIADDR_P == UDP_DATA_P + 20

\* index in the area of the first option: (byte *)(dhcpPtr + 1) + 4
OPT_FIRST == 5

\* offset in the buffer of area[i]
Off(i) == AREA_P + i - 1

Rd(area, i) == IF i \in 1..Len(area) THEN area[i] ELSE 0

RdN(area, i, n) == [k \in 1..n |-> Rd(area, i + k - 1)]

BufZero ==
  [srcPort |-> 0, xid |-> U32Zero, ciaddr |-> IpZero, yiaddr |-> IpZero,
   siaddr |-> IpZero, area |-> [i \in 1..AREA_LEN |-> 0]]

\* the octets s written at the start of the area, the rest kept
WriteArea(area, s) == [i \in 1..Len(area) |-> IF i <= Len(s) THEN s[i] ELSE area[i]]

\* a received frame of f.len octets overwrites the first f.len octets; xid is
\* the transaction id it carries
Receive(buf, f, xid) ==
  [srcPort |-> IF f.len > UDP_SRC_PORT_L_P THEN f.srcPort ELSE buf.srcPort,
   xid     |-> IF f.len >= XID_P + 4 THEN xid ELSE buf.xid,
   ciaddr  |-> IF f.len >= CIADDR_P + 4 THEN IpZero ELSE buf.ciaddr,
   yiaddr  |-> IF f.len >= YIADDR_P + 4 THEN f.yiaddr ELSE buf.yiaddr,
   siaddr  |-> IF f.len >= SIADDR_P + 4 THEN IpZero ELSE buf.siaddr,
   area    |-> [i \in 1..Len(buf.area) |->
                  IF i <= Len(f.area) /\ Off(i) < f.len THEN f.area[i]
                  ELSE buf.area[i]]]

\* ------------------------------------------------------------ encoder
\* the octets strlen(hostname) counts and addOption copies: those of the
\* array up to its first zero octet and, if the array holds none, the array
\* and the octets that follow it in memory up to the first zero octet
HostnameString(h, after) ==
  IF StrLen(h) < Len(h) THEN SubSeq(h, 1, StrLen(h)) ELSE h \o after

HostnameOption(h) ==
  IF h[1] # 0
  THEN <<DHCP_OPT_HOSTNAME, Len(HostnameString(h, beyond))>>
       \o HostnameString(h, beyond)
  ELSE <<>>

RequestOptions(requestip, srv) ==
  IF requestip # NULL
  THEN <<DHCP_OPT_REQUESTED_ADDRESS, 4>> \o requestip
       \o <<DHCP_OPT_SERVER_IDENTIFIER, 4>> \o srv
  ELSE <<>>

ParameterRequestList(custom) ==
  <<DHCP_OPT_PARAMETER_REQUEST_LIST, IF custom # 0 THEN 9 ELSE 8,
    DHCP_OPT_SUBNET_MASK, DHCP_OPT_TIME_OFFSET, DHCP_OPT_ROUTERS,
    DHCP_OPT_TIME_SERVERS, DHCP_OPT_DOMAIN_NAME_SERVERS,
    DHCP_OPT_NTP_SERVERS, DHCP_OPT_DOMAIN_SEARCH_LIST>>
  \o (IF custom # 0 THEN <<custom>> ELSE <<>>)

\* a message type that is REQUEST in every state
MessageTypeFor_Request(state) == DHCP_REQUEST

\* dhcpState == DHCP_STATE_INIT ? DHCP_DISCOVER : DHCP_REQUEST
MessageTypeFor(state) ==
  IF state = DHCP_STATE_INIT THEN DHCP_DISCOVER ELSE DHCP_REQUEST

\* the octets send_dhcp_message writes from the cookie on
MessageOctets(requestip, state, srv, h, custom) ==
  Cookie
  \o <<DHCP_OPT_MESSAGE_TYPE, 1, MessageTypeFor(state)>>
  \o <<DHCP_OPT_CLIENT_IDENTIFIER, 1 + Len(mymac), DHCP_HTYPE_ETHER>> \o mymac
  \o HostnameOption(h)
  \o RequestOptions(requestip, srv)
  \o ParameterRequestList(custom)
  \o <<DHCP_OPT_END>>

\* a message that takes its transaction id from the clock
MessageXid_Clock(xid) == now

\* dhcpPtr->xid = currentXid
MessageXid(xid) == xid

\* send_dhcp_message: the buffer it leaves and the message it transmits
send_dhcp_message(buf, requestip, state, xid, ip, srv, h, custom) ==
  LET octets == MessageOctets(requestip, state, srv, h, custom)
      out == [srcPort |-> DHCP_CLIENT_PORT,
              xid     |-> MessageXid(xid),
              ciaddr  |-> IF state = DHCP_STATE_BOUND THEN ip ELSE IpZero,
              yiaddr  |-> IpZero,
              siaddr  |-> IpZero,
              area    |-> WriteArea(buf.area, octets)]
  IN  [buf |-> out,
       tx  |-> [len    |-> DHCP_DATA_SIZE + Len(octets),
                kind   |-> MessageTypeFor(state),
                req    |-> requestip,
                srv    |-> srv,
                dst    |-> IF state = DHCP_STATE_BOUND THEN srv ELSE allOnes,
                xid    |-> out.xid,
                ciaddr |-> out.ciaddr,
                siaddr |-> out.siaddr,
                area   |-> octets]]

\* ----------------------------------------------------------- scanners
RECURSIVE ScanMessageType(_, _, _, _)
\* the do-while of dhcp_received_message_type, from the option at index p
ScanMessageType(area, p, len, msgType) ==
  LET option == Rd(area, p)
      optionLen == Rd(area, p + 1)
      ptr == p + 2
  IN  IF option = DHCP_OPT_MESSAGE_TYPE /\ Rd(area, ptr) = msgType
      THEN TRUE
      ELSE IF Off(ptr + optionLen) < len
           THEN ScanMessageType(area, ptr + optionLen, len, msgType)
           ELSE FALSE

\* a comparison that accepts every transaction id
XidMatches_Any(buf, xid) == TRUE

\* memcmp(gPB + UDP_DATA_P + 4, &currentXid, 4) == 0
XidMatches(buf, xid) == buf.xid = xid

dhcp_received_message_type(buf, len, msgType, xid) ==
  IF len >= MIN_DHCP_LEN
     /\ buf.srcPort % 256 = DHCP_SERVER_PORT
     /\ XidMatches(buf, xid)
  THEN ScanMessageType(buf.area, OPT_FIRST, len, msgType)
  ELSE FALSE

RECURSIVE ScanServerIdentifier(_, _, _, _)
\* the do-while of process_dhcp_offer: the new value of dhcpip
ScanServerIdentifier(area, p, len, srv) ==
  LET option == Rd(area, p)
      optionLen == Rd(area, p + 1)
      ptr == p + 2
  IN  IF option = DHCP_OPT_SERVER_IDENTIFIER
      THEN RdN(area, ptr, 4)
      ELSE IF Off(ptr + optionLen) < len
           THEN ScanServerIdentifier(area, ptr + optionLen, len, srv)
           ELSE srv

\* an offer handler that does not look for the server identifier
process_dhcp_offer_KeepServer(buf, len, srv) ==
  [offeredip |-> buf.yiaddr, dhcpip |-> srv]

process_dhcp_offer(buf, len, srv) ==
  [offeredip |-> buf.yiaddr,
   dhcpip    |-> ScanServerIdentifier(buf.area, OPT_FIRST, len, srv)]

\* leaseTime = 0; for (i < 4) leaseTime = (leaseTime << 8) + ptr[i];
\* if (leaseTime != DHCP_INFINITE_LEASE) leaseTime *= 1000;
LeaseFromOctets(o) ==
  LET raw == Shl8Add(Shl8Add(Shl8Add(Shl8Add(U32Zero, o[1]), o[2]), o[3]), o[4])
  IN  IF raw # DHCP_INFINITE_LEASE THEN Mul1000(raw) ELSE raw

\* the switch of process_dhcp_ack on one option
ApplyOption(c, option, area, ptr) ==
  CASE option = DHCP_OPT_SUBNET_MASK -> [c EXCEPT !.netmask = RdN(area, ptr, 4)]
    [] option = DHCP_OPT_ROUTERS -> [c EXCEPT !.gwip = RdN(area, ptr, 4)]
    [] option = DHCP_OPT_DOMAIN_NAME_SERVERS -> [c EXCEPT !.dnsip = RdN(area, ptr, 4)]
    [] option \in {DHCP_OPT_LEASE_TIME, DHCP_OPT_RENEWAL_TIME} ->
         [c EXCEPT !.leaseTime = LeaseFromOctets(RdN(area, ptr, 4))]
    [] OTHER -> c

\* the call placed in the default branch of the switch: recognised options
\* and the End tag are not passed on
InvokeCallback_Unrecognised(c, cb, option, area, ptr, optionLen) ==
  IF option \in {DHCP_OPT_SUBNET_MASK, DHCP_OPT_ROUTERS,
                 DHCP_OPT_DOMAIN_NAME_SERVERS, DHCP_OPT_LEASE_TIME,
                 DHCP_OPT_RENEWAL_TIME, DHCP_OPT_END}
  THEN c
  ELSE [c EXCEPT !.calls = Append(@, [cb |-> cb, option |-> option,
                                      len |-> optionLen,
                                      data |-> RdN(area, ptr, optionLen),
                                      seen |-> [netmask |-> c.netmask,
                                                gwip |-> c.gwip,
                                                dnsip |-> c.dnsip,
                                                leaseTime |-> c.leaseTime]])]

\* dhcpCustomOptionCallback(option, ptr, optionLen)
InvokeCallback(c, cb, option, area, ptr, optionLen) ==
  [c EXCEPT !.calls = Append(@, [cb |-> cb, option |-> option, len |-> optionLen,
                                 data |-> RdN(area, ptr, optionLen),
                                 seen |-> [netmask |-> c.netmask,
                                           gwip |-> c.gwip,
                                           dnsip |-> c.dnsip,
                                           leaseTime |-> c.leaseTime]])]

RECURSIVE ScanAck(_, _, _, _, _)
\* the do-while of process_dhcp_ack, from the option at index p
ScanAck(area, p, len, c, cb) ==
  LET option == Rd(area, p)
      optionLen == Rd(area, p + 1)
      ptr == p + 2
      c1 == ApplyOption(c, option, area, ptr)
      c2 == IF cb # NoCallback
            THEN InvokeCallback(c1, cb, option, area, ptr, optionLen)
            ELSE c1
      done == option = DHCP_OPT_END
  IN  IF ~done /\ Off(ptr + optionLen) < len
      THEN ScanAck(area, ptr + optionLen, len, c2, cb)
      ELSE c2

\* process_dhcp_ack with a callback registered, or with the call through the
\* null pointer returning
process_dhcp_ack(buf, len, c, cb) ==
  ScanAck(buf.area, OPT_FIRST, len, [c EXCEPT !.myip = buf.yiaddr], cb)

\* process_dhcp_ack up to the call through the null pointer, where it faults
process_dhcp_ack_fault(buf, len, c) ==
  ApplyOption([c EXCEPT !.myip = buf.yiaddr], Rd(buf.area, OPT_FIRST), buf.area,
              OPT_FIRST + 2)

AckContext ==
  [myip |-> myip, netmask |-> netmask, gwip |-> gwip, dnsip |-> dnsip,
   leaseTime |-> leaseTime, calls |-> <<>>]

\* ------------------------------------------------- frames and clock
\* a transaction id no session of the model uses unless the clock hits it
OtherXid == <<4660, 22136>>

LeaseOctets3600 == <<0, 0, 14, 16>>
LeaseOctets10 == <<0, 0, 0, 10>>
LeaseOctetsInfinite == <<255, 255, 255, 255>>

Padded(s) == PadZero(s, BOOTP_AREA_LEN)

MessageTypeOption(t) == <<DHCP_OPT_MESSAGE_TYPE, 1, t>>

OfferArea(srv) ==
  Padded(Cookie \o MessageTypeOption(DHCP_OFFER)
         \o <<DHCP_OPT_SERVER_IDENTIFIER, 4>> \o srv \o <<DHCP_OPT_END>>)

AckArea(lease) ==
  Padded(Cookie \o MessageTypeOption(DHCP_ACK)
         \o <<DHCP_OPT_SUBNET_MASK, 4>> \o IpMask
         \o <<DHCP_OPT_ROUTERS, 4>> \o IpServer
         \o <<DHCP_OPT_LEASE_TIME, 4>> \o lease \o <<DHCP_OPT_END>>)

\* the messages of the modelled server
Offer == OfferArea(IpServer)
Ack3600 == AckArea(LeaseOctets3600)
Ack10 == AckArea(LeaseOctets10)
AckInfinite == AckArea(LeaseOctetsInfinite)

Areas == {Offer, Ack3600, Ack10, AckInfinite}

\* a frame length below the options: the spec's 80
ShortLens == {80}

\* a frame on the wire; own says that it carries the session's transaction id
Frame(area, len, port, own) ==
  [len |-> len, srcPort |-> port, own |-> own, yiaddr |-> IpOffered, area |-> area]

NoFrame == Frame(<<>>, 0, 0, FALSE)

\* the frames a tick can find: the modelled messages from the server port with
\* the session's transaction id, an OFFER and an ACK with a foreign id, a frame
\* that ends below the options, and no frame at all
Frames ==
  {Frame(a, AREA_P + BOOTP_AREA_LEN, DHCP_SERVER_PORT, TRUE) : a \in Areas}
  \cup {Frame(a, AREA_P + BOOTP_AREA_LEN, DHCP_SERVER_PORT, FALSE) :
          a \in {Offer, Ack3600}}
  \cup {Frame(<<>>, l, DHCP_SERVER_PORT, TRUE) : l \in ShortLens}
  \cup {NoFrame}

\* clock step of Spec: 1 ms more than the request timeout and the 10 s lease
Deltas == {<<0, 10001>>}

\* clock steps of SpecTimer: the request timeout, 1 ms more, and 10001 ms less
\* than the period 2^32 of millis()
TimerDeltas == {DHCP_REQUEST_TIMEOUT, <<0, 10001>>, <<65535, 55535>>}

\* ------------------------------------------------------------- Init
\* the statics as the program starts, with the octets after in memory
\* behind hostname[]
InitWith(after) ==
  /\ dhcpState = DHCP_STATE_INIT
  /\ currentXid = U32Zero
  /\ stateTimer = U32Zero
  /\ leaseStart = U32Zero
  /\ leaseTime = U32Zero
  /\ myip = IpZero /\ netmask = IpZero /\ broadcastip = IpZero
  /\ gwip = IpZero /\ dhcpip = IpZero /\ dnsip = IpZero /\ hisip = IpZero
  /\ using_dhcp = FALSE
  /\ hostname = PadZero(HostnameDefault, DHCP_HOSTNAME_MAX_LEN)
  /\ dhcpCustomOptionNum = 0
  /\ dhcpCustomOptionCallback = NoCallback
  /\ gPB = BufZero
  /\ now = U32Zero
  /\ nAdv = 0
  /\ nCalls = 0
  /\ tx = NoMsg
  /\ rx = NoBuf
  /\ last = [op |-> "boot", len |-> 0, pre |-> DHCP_STATE_INIT, ret |-> FALSE,
             t |-> U32Zero, restart |-> FALSE, regs |-> <<>>]
  /\ calls = <<>>
  /\ crashed = FALSE
  /\ elapsed = [timer |-> NoTime, lease |-> NoTime]
  /\ beyond = after

Init == InitWith(<<>>)

\* the record of an operation: its name, the length passed, the state and the
\* clock it started with, its result, and whether the machine came to INIT by a
\* timeout (kept while only the clock moves, and by the INIT tick that follows);
\* regs lists the registrations dhcpAddOptionCallback has made so far
Op(name, len) ==
  [op |-> name, len |-> len, pre |-> dhcpState, ret |-> FALSE, t |-> now,
   restart |-> FALSE, regs |-> last.regs]

\* millis() moves on by d between two calls, at most max times
Advance(d, max) ==
  /\ ~crashed
  /\ nAdv < max
  /\ now' = Add32(now, d)
  /\ elapsed' = [timer |-> Later(elapsed.timer, d),
                 lease |-> Later(elapsed.lease, d)]
  /\ nAdv' = nAdv + 1
  /\ last' = [Op("advance", 0) EXCEPT !.restart = last.restart]
  /\ tx' = NoMsg /\ rx' = NoBuf /\ calls' = <<>>
  /\ UNCHANGED <<session, config, options, using_dhcp, gPB, nCalls, crashed,
                 beyond>>

\* ------------------------------------------------- DhcpStateMachine
\* a timeout that fires as soon as DHCP_REQUEST_TIMEOUT has elapsed
TimedOut_AtLeast(t, timer) == Ge32(Sub32(t, timer), DHCP_REQUEST_TIMEOUT)

\* millis() - stateTimer > DHCP_REQUEST_TIMEOUT
\* a timeout tested against a deadline computed in 32 bits
TimedOut_Deadline(t, timer) == Gt32(t, Add32(timer, DHCP_REQUEST_TIMEOUT))

TimedOut(t, timer) == Gt32(Sub32(t, timer), DHCP_REQUEST_TIMEOUT)

\* an expiry test without the sentinel of the infinite lease
LeaseElapsed_NoSentinel(t, start, lease) == Ge32(Sub32(t, start), lease)

\* leaseTime != DHCP_INFINITE_LEASE && millis() - leaseStart >= leaseTime
\* a renewal test that lets every finite lease count as run out
LeaseElapsed_Finite(t, start, lease) == lease # DHCP_INFINITE_LEASE

LeaseElapsed(t, start, lease) ==
  lease # DHCP_INFINITE_LEASE /\ Ge32(Sub32(t, start), lease)

\* the buffer a tick finds: the frame f (if any) received by the packet loop
\* over what the buffer held
Buffer(f) == Receive(gPB, f, IF f.own THEN currentXid ELSE OtherXid)

\* what every tick records: the buffer as found and the length passed
TickFrame(buf, len) ==
  /\ ~crashed
  /\ rx' = buf
  /\ last' = [Op("tick", len) EXCEPT
                !.restart = dhcpState = DHCP_STATE_INIT /\ last.restart]
  /\ UNCHANGED <<now, nAdv, nCalls, options, using_dhcp, crashed, beyond>>

\* a restart that keeps the transaction id
InitXid_Keep(t, old) == old

\* currentXid = millis()
InitXid(t, old) == t

\* case DHCP_STATE_INIT
\* memset(myip, 0, IP_LEN)
InitAddress(ip) == [i \in 1..Len(ip) |-> 0]

TickInit(f) ==
  LET buf == Buffer(f)
      len == f.len
  IN
    /\ dhcpState = DHCP_STATE_INIT
    /\ TickFrame(buf, len)
    /\ LET m == send_dhcp_message(buf, NULL, dhcpState,
                                  InitXid(now, currentXid), IpZero, dhcpip,
                                  hostname, dhcpCustomOptionNum)
       IN  /\ currentXid' = InitXid(now, currentXid)
           /\ myip' = InitAddress(myip)
           /\ gPB' = m.buf
           /\ tx' = m.tx
           /\ dhcpState' = DHCP_STATE_SELECTING
           /\ stateTimer' = now
           /\ elapsed' = [elapsed EXCEPT !.timer = NoTime]
    /\ calls' = <<>>
    /\ UNCHANGED <<leaseStart, leaseTime, netmask, broadcastip, gwip, dhcpip,
                   dnsip, hisip>>

\* case DHCP_STATE_SELECTING, an OFFER was recognised
TickSelectingOffer(f) ==
  LET buf == Buffer(f)
      len == f.len
  IN
    /\ dhcpState = DHCP_STATE_SELECTING
    /\ dhcp_received_message_type(buf, len, DHCP_OFFER, currentXid)
    /\ TickFrame(buf, len)
    /\ LET o == process_dhcp_offer(buf, len, dhcpip)
           m == send_dhcp_message(buf, o.offeredip, dhcpState, currentXid, myip,
                                  o.dhcpip, hostname, dhcpCustomOptionNum)
       IN  /\ dhcpip' = o.dhcpip
           /\ gPB' = m.buf
           /\ tx' = m.tx
    /\ dhcpState' = DHCP_STATE_REQUESTING
    /\ stateTimer' = now
    /\ elapsed' = [elapsed EXCEPT !.timer = NoTime]
    /\ calls' = <<>>
    /\ UNCHANGED <<currentXid, leaseStart, leaseTime, myip, netmask, broadcastip,
                   gwip, dnsip, hisip>>

\* the state after the else branch of SELECTING, REQUESTING and RENEWING
AfterWaiting(state, t, timer) ==
  IF TimedOut(t, timer) THEN DHCP_STATE_INIT ELSE state

\* SELECTING, REQUESTING or RENEWING without the awaited message
TickWaiting(f) ==
  LET buf == Buffer(f)
      len == f.len
  IN
    /\ \/ /\ dhcpState = DHCP_STATE_SELECTING
          /\ ~dhcp_received_message_type(buf, len, DHCP_OFFER, currentXid)
       \/ /\ dhcpState \in {DHCP_STATE_REQUESTING, DHCP_STATE_RENEWING}
          /\ ~dhcp_received_message_type(buf, len, DHCP_ACK, currentXid)
    /\ ~crashed
    /\ rx' = buf
    /\ last' = [Op("tick", len) EXCEPT !.restart = TimedOut(now, stateTimer)]
    /\ UNCHANGED <<now, nAdv, nCalls, options, using_dhcp, crashed, beyond>>
    /\ dhcpState' = AfterWaiting(dhcpState, now, stateTimer)
    /\ gPB' = buf
    /\ tx' = NoMsg /\ calls' = <<>>
    /\ UNCHANGED <<currentXid, stateTimer, leaseStart, leaseTime, config, elapsed>>

\* case DHCP_STATE_REQUESTING / RENEWING, an ACK was recognised; with no
\* callback registered the call through the null pointer returns
TickAck(f) ==
  LET buf == Buffer(f)
      len == f.len
  IN
    /\ dhcpState \in {DHCP_STATE_REQUESTING, DHCP_STATE_RENEWING}
    /\ dhcp_received_message_type(buf, len, DHCP_ACK, currentXid)
    /\ TickFrame(buf, len)
    /\ LET c == process_dhcp_ack(buf, len, AckContext, dhcpCustomOptionCallback)
       IN  /\ myip' = c.myip /\ netmask' = c.netmask /\ gwip' = c.gwip
           /\ dnsip' = c.dnsip /\ leaseTime' = c.leaseTime
           /\ calls' = c.calls
    /\ leaseStart' = now
    /\ elapsed' = [elapsed EXCEPT !.lease = NoTime]
    /\ dhcpState' = DHCP_STATE_BOUND
    /\ gPB' = buf
    /\ tx' = NoMsg
    /\ UNCHANGED <<currentXid, stateTimer, broadcastip, dhcpip, hisip>>

\* the same with no callback registered, the call through the null pointer
\* faulting: the device stops inside process_dhcp_ack
TickAckFault(f) ==
  LET buf == Buffer(f)
      len == f.len
  IN
    /\ dhcpState \in {DHCP_STATE_REQUESTING, DHCP_STATE_RENEWING}
    /\ dhcp_received_message_type(buf, len, DHCP_ACK, currentXid)
    /\ dhcpCustomOptionCallback = NoCallback
    /\ ~crashed
    /\ rx' = buf
    /\ last' = Op("tick", len)
    /\ crashed' = TRUE
    /\ LET c == process_dhcp_ack_fault(buf, len, AckContext)
       IN  /\ myip' = c.myip /\ netmask' = c.netmask /\ gwip' = c.gwip
           /\ dnsip' = c.dnsip /\ leaseTime' = c.leaseTime
    /\ gPB' = buf
    /\ tx' = NoMsg /\ calls' = <<>>
    /\ UNCHANGED elapsed
    /\ UNCHANGED <<dhcpState, currentXid, stateTimer, leaseStart, broadcastip,
                   dhcpip, hisip, now, nAdv, nCalls, options, using_dhcp,
                   beyond>>

\* case DHCP_STATE_BOUND, the lease has run out
TickBoundRenew(f) ==
  LET buf == Buffer(f)
      len == f.len
  IN
    /\ dhcpState = DHCP_STATE_BOUND
    /\ LeaseElapsed(now, leaseStart, leaseTime)
    /\ TickFrame(buf, len)
    /\ LET m == send_dhcp_message(buf, myip, dhcpState, currentXid, myip, dhcpip,
                                  hostname, dhcpCustomOptionNum)
       IN  /\ gPB' = m.buf
           /\ tx' = m.tx
    /\ dhcpState' = DHCP_STATE_RENEWING
    /\ stateTimer' = now
    /\ elapsed' = [elapsed EXCEPT !.timer = NoTime]
    /\ calls' = <<>>
    /\ UNCHANGED <<currentXid, leaseStart, leaseTime, config>>

\* a switch whose missing case falls into INIT
AfterIdle_Restart(state) ==
  IF state = DHCP_STATE_RELEASED THEN DHCP_STATE_INIT ELSE state

\* the state after a tick for which the switch has no case or an empty one
AfterIdle(state) == state

\* BOUND with a running or infinite lease, RELEASING, RELEASED: no case acts
TickIdle(f) ==
  LET buf == Buffer(f)
      len == f.len
  IN
    /\ \/ dhcpState = DHCP_STATE_BOUND /\ ~LeaseElapsed(now, leaseStart, leaseTime)
       \/ dhcpState \in {DHCP_STATE_RELEASING, DHCP_STATE_RELEASED}
    /\ TickFrame(buf, len)
    /\ gPB' = buf
    /\ tx' = NoMsg /\ calls' = <<>>
    /\ dhcpState' = AfterIdle(dhcpState)
    /\ UNCHANGED <<currentXid, stateTimer, leaseStart, leaseTime, config, elapsed>>

\* the packet loop receives the frame f (if any) into the buffer and calls
\* DhcpStateMachine with its length
DhcpStateMachine(f) ==
  \/ TickInit(f)
  \/ TickSelectingOffer(f)
  \/ TickWaiting(f)
  \/ TickAck(f)
  \/ TickAckFault(f)
  \/ TickBoundRenew(f)
  \/ TickIdle(f)

\* ------------------------------------------------------ entry points
\* what every call of an entry point records
CallUpTo(name, max) ==
  /\ ~crashed
  /\ nCalls < max
  /\ nCalls' = nCalls + 1
  /\ rx' = NoBuf /\ calls' = <<>>
  /\ UNCHANGED <<now, nAdv, crashed, elapsed>>

Call(name) == CallUpTo(name, MaxCalls)

\* strncpy(hostname, hname, DHCP_HOSTNAME_MAX_LEN)
Strncpy(hname, n) == [i \in 1..n |-> IF i <= Len(hname) THEN hname[i] ELSE 0]

\* hostname[strlen(hostname) - 2] = hex(mymac[5] >> 4);
\* hostname[strlen(hostname) - 1] = hex(mymac[5])
MacSuffix(mem) ==
  LET n == StrLen(mem)
  IN  [mem EXCEPT ![n - 1] = toAsciiHex(mymac[6] \div 16), ![n] = toAsciiHex(mymac[6])]

\* the array and the octets after it as the two writes leave them, which
\* land beyond the array if it holds no zero octet
MacSuffixMemory(h, after) ==
  IF StrLen(h) < Len(h) THEN MacSuffix(h) \o after
  ELSE MacSuffix(h \o after)

\* host names the application passes; NULL asks for the default name
HostNames == {NULL}

dhcpSetupResult == TRUE

\* dhcpSetup as one of at most max calls of entry points
dhcpSetupUpTo(hname, max) ==
  /\ CallUpTo("dhcpSetup", max)
  /\ using_dhcp' = TRUE
  /\ hostname' = IF hname # NULL
                 THEN Strncpy(hname, DHCP_HOSTNAME_MAX_LEN)
                 ELSE SubSeq(MacSuffixMemory(hostname, beyond),
                             1, DHCP_HOSTNAME_MAX_LEN)
  /\ beyond' = IF hname # NULL \/ StrLen(hostname) < Len(hostname)
               THEN beyond
               ELSE SubSeq(MacSuffixMemory(hostname, beyond),
                           DHCP_HOSTNAME_MAX_LEN + 1,
                           DHCP_HOSTNAME_MAX_LEN + Len(beyond))
  /\ dhcpState' = DHCP_STATE_INIT
  /\ last' = [Op("dhcpSetup", 0) EXCEPT !.ret = dhcpSetupResult]
  /\ tx' = NoMsg
  /\ UNCHANGED <<currentXid, stateTimer, leaseStart, leaseTime, config,
                 dhcpCustomOptionNum, dhcpCustomOptionCallback, gPB>>

dhcpSetup(hname) == dhcpSetupUpTo(hname, MaxCalls)

\* the octets dhcpRelease writes from the cookie on
ReleaseOctets(srv) ==
  Cookie
  \o <<DHCP_OPT_MESSAGE_TYPE, 1, DHCP_RELEASE>>
  \o <<DHCP_OPT_CLIENT_IDENTIFIER, 1 + Len(mymac), DHCP_HTYPE_ETHER>> \o mymac
  \o <<DHCP_OPT_SERVER_IDENTIFIER, 4>> \o srv
  \o <<DHCP_OPT_END>>

\* a clean-up that leaves the field as it is
ReleasedField_Keep(field) == field

\* the value the clean-up loop of dhcpRelease leaves in a configuration field
ReleasedField(field) == [i \in 1..Len(field) |-> 0]

\* dhcpRelease as one of at most max calls of entry points
\* a message built after the clean-up loop
SentField_AfterCleanup(field, cleaned) == cleaned

\* the value of a configuration field the RELEASE carries: the message is
\* built and transmitted before the clean-up loop writes the field
SentField(field, cleaned) == field

dhcpReleaseUpTo(max) ==
  /\ CallUpTo("dhcpRelease", max)
  /\ LET ip == SentField(myip, ReleasedField(myip))
         srv == SentField(dhcpip, ReleasedField(dhcpip))
     IN  /\ tx' = [len    |-> DHCP_DATA_SIZE + Len(ReleaseOctets(srv)),
                   kind   |-> DHCP_RELEASE,
                   req    |-> NULL,
                   srv    |-> srv,
                   dst    |-> allOnes,
                   xid    |-> currentXid,
                   ciaddr |-> ip,
                   siaddr |-> srv,
                   area   |-> ReleaseOctets(srv)]
         /\ gPB' = [BufZero EXCEPT
                      !.area = WriteArea(gPB.area, ReleaseOctets(srv))]
  /\ myip' = ReleasedField(myip)
  /\ netmask' = ReleasedField(netmask)
  /\ broadcastip' = ReleasedField(broadcastip)
  /\ gwip' = ReleasedField(gwip)
  /\ dhcpip' = ReleasedField(dhcpip)
  /\ dnsip' = ReleasedField(dnsip)
  /\ hisip' = ReleasedField(hisip)
  /\ dhcpState' = DHCP_STATE_RELEASED
  /\ using_dhcp' = FALSE
  /\ last' = Op("dhcpRelease", 0)
  /\ UNCHANGED <<currentXid, stateTimer, leaseStart, leaseTime, options, beyond>>

dhcpRelease == dhcpReleaseUpTo(MaxCalls)

\* option numbers and callbacks the application registers
CustomOptions == {43}
Callbacks == {"cb1"}

\* a slot that a registration does not write
Registered_Keep(old, new) == old

\* dhcpCustomOptionNum = option; dhcpCustomOptionCallback = callback
Registered(old, new) == new

\* dhcpAddOptionCallback as one of at most max calls of entry points
dhcpAddOptionCallbackUpTo(option, callback, max) ==
  /\ CallUpTo("dhcpAddOptionCallback", max)
  /\ dhcpCustomOptionNum' = Registered(dhcpCustomOptionNum, option)
  /\ dhcpCustomOptionCallback' = Registered(dhcpCustomOptionCallback, callback)
  /\ last' = [Op("dhcpAddOptionCallback", 0) EXCEPT
                !.regs = Append(@, [option |-> option, cb |-> callback])]
  /\ tx' = NoMsg
  /\ UNCHANGED <<session, config, hostname, using_dhcp, gPB, beyond>>

dhcpAddOptionCallback(option, callback) ==
  dhcpAddOptionCallbackUpTo(option, callback, MaxCalls)

\* ---------------------------------------------------- specification
\* the client with its entry points, the modelled server and a coarse clock
Next ==
  \/ \E d \in Deltas : Advance(d, MaxAdvance)
  \/ \E f \in Frames : DhcpStateMachine(f)
  \/ \E h \in HostNames : dhcpSetup(h)
  \/ dhcpRelease
  \/ \E o \in CustomOptions, cb \in Callbacks : dhcpAddOptionCallback(o, cb)

Spec == Init /\ [][Next]_vars

\* the frames of SpecTimer: an OFFER, ACKs with a 10 s and an infinite lease, an
\* OFFER with a foreign transaction id, and no frame
TimerFrames ==
  {Frame(a, AREA_P + BOOTP_AREA_LEN, DHCP_SERVER_PORT, TRUE) :
     a \in {Offer, Ack10, AckInfinite}}
  \cup {Frame(Offer, AREA_P + BOOTP_AREA_LEN, DHCP_SERVER_PORT, FALSE), NoFrame}

\* the client polled by its caller under a clock that reaches the timeout
\* boundary and the wrap of millis()
NextTimer ==
  \/ \E d \in TimerDeltas : Advance(d, MaxTimerAdvance)
  \/ \E f \in TimerFrames : DhcpStateMachine(f)
  \/ \E o \in CustomOptions, cb \in Callbacks : dhcpAddOptionCallback(o, cb)

SpecTimer == Init /\ [][NextTimer]_vars

\* the client on a network where no frame ever arrives
NextQuiet ==
  \/ \E d \in TimerDeltas : Advance(d, MaxQuietAdvance)
  \/ TickInit(NoFrame)
  \/ TickWaiting(NoFrame)
  \/ \E h \in HostNames : dhcpSetup(h)

SpecQuiet == Init /\ [][NextQuiet]_vars

\* an ACK that carries the vendor option 43 between recognised options
VendorValue == <<7, 9>>
AckVendor ==
  Padded(Cookie \o MessageTypeOption(DHCP_ACK)
         \o <<DHCP_OPT_SUBNET_MASK, 4>> \o IpMask
         \o <<43, Len(VendorValue)>> \o VendorValue
         \o <<DHCP_OPT_LEASE_TIME, 4>> \o LeaseOctets10 \o <<DHCP_OPT_END>>)

\* the frames of SpecOption: an OFFER, the ACK with the vendor option, no frame
OptionFrames ==
  {Frame(a, AREA_P + BOOTP_AREA_LEN, DHCP_SERVER_PORT, TRUE) :
     a \in {Offer, AckVendor}}
  \cup {NoFrame}

\* option numbers and callbacks the application registers in SpecOption
VendorOptions == {43, 60}
VendorCallbacks == {"cb1", "cb2"}

\* the client of an application that registers option callbacks, up to twice
NextOption ==
  \/ \E d \in Deltas : Advance(d, MaxAdvance)
  \/ \E f \in OptionFrames : DhcpStateMachine(f)
  \/ \E o \in VendorOptions, cb \in VendorCallbacks :
       dhcpAddOptionCallbackUpTo(o, cb, MaxOptionCalls)

SpecOption == Init /\ [][NextOption]_vars

\* an OFFER that names no server
OfferNoServer == Padded(Cookie \o MessageTypeOption(DHCP_OFFER) \o <<DHCP_OPT_END>>)

\* the frames of SpecRelease: OFFERs with and without a server identifier, an
\* ACK, no frame
ReleaseFrames ==
  {Frame(a, AREA_P + BOOTP_AREA_LEN, DHCP_SERVER_PORT, TRUE) :
     a \in {Offer, OfferNoServer, Ack10}}
  \cup {NoFrame}

\* the client of an application that releases the lease and starts again
NextRelease ==
  \/ \E d \in Deltas : Advance(d, MaxAdvance)
  \/ \E f \in ReleaseFrames : DhcpStateMachine(f)
  \/ \E h \in HostNames : dhcpSetupUpTo(h, MaxSessionCalls)
  \/ dhcpReleaseUpTo(MaxSessionCalls)

SpecRelease == Init /\ [][NextRelease]_vars

\* a source port whose low octet is that of the server port
PortLow67 == 323

\* the frames of SpecFilter: OFFERs and ACKs from the server port, from a port
\* with the same low octet, from the client port and with a foreign
\* transaction id, a frame of 69 octets, no frame
FilterFrames ==
  {Frame(a, AREA_P + BOOTP_AREA_LEN, p, TRUE) :
     a \in {Offer, Ack10}, p \in {DHCP_SERVER_PORT, PortLow67, DHCP_CLIENT_PORT}}
  \cup {Frame(a, AREA_P + BOOTP_AREA_LEN, DHCP_SERVER_PORT, FALSE) :
          a \in {Offer, Ack10}}
  \cup {Frame(<<>>, MIN_DHCP_LEN - 1, DHCP_SERVER_PORT, TRUE), NoFrame}

\* the client on a network that carries other traffic
NextFilter ==
  \/ \E d \in Deltas : Advance(d, MaxAdvance)
  \/ \E f \in FilterFrames : DhcpStateMachine(f)

SpecFilter == Init /\ [][NextFilter]_vars

\* lease values in seconds as the 4 big-endian octets of option 51 or 58:
\* 10 s, 4,294,967 s (the largest whose milliseconds fit 32 bits),
\* 4,294,968 s and the infinite lease
LeaseOctetsFits == <<0, 65, 137, 55>>
LeaseOctetsOver == <<0, 65, 137, 56>>
LeaseValues ==
  {LeaseOctets10, LeaseOctetsFits, LeaseOctetsOver, LeaseOctetsInfinite}

\* an ACK that carries its lease in option tag (51 or 58)
AckLease(tag, lease) ==
  Padded(Cookie \o MessageTypeOption(DHCP_ACK)
         \o <<DHCP_OPT_SUBNET_MASK, 4>> \o IpMask
         \o <<tag, 4>> \o lease \o <<DHCP_OPT_END>>)

\* an ACK that carries neither option 51 nor option 58
AckNoLease ==
  Padded(Cookie \o MessageTypeOption(DHCP_ACK)
         \o <<DHCP_OPT_SUBNET_MASK, 4>> \o IpMask \o <<DHCP_OPT_END>>)

\* the frames of SpecLease: an OFFER, ACKs with each lease value in option 51
\* and in option 58, an ACK without a lease, no frame
LeaseFrames ==
  {Frame(AckLease(t, l), AREA_P + BOOTP_AREA_LEN, DHCP_SERVER_PORT, TRUE) :
     t \in {DHCP_OPT_LEASE_TIME, DHCP_OPT_RENEWAL_TIME}, l \in LeaseValues}
  \cup {Frame(a, AREA_P + BOOTP_AREA_LEN, DHCP_SERVER_PORT, TRUE) :
          a \in {Offer, AckNoLease}}
  \cup {NoFrame}

\* the client of a server that grants short, long and infinite leases
NextLease ==
  \/ \E d \in Deltas : Advance(d, MaxAdvance)
  \/ \E f \in LeaseFrames : DhcpStateMachine(f)
  \/ \E o \in CustomOptions, cb \in Callbacks : dhcpAddOptionCallback(o, cb)

SpecLease == Init /\ [][NextLease]_vars

\* a NAK, and a NAK whose octets after the End tag read as option 53 = ACK
Nak == Padded(Cookie \o MessageTypeOption(DHCP_NAK) \o <<DHCP_OPT_END>>)
NakThenAck ==
  Padded(Cookie \o MessageTypeOption(DHCP_NAK) \o <<DHCP_OPT_END, 0>>
         \o MessageTypeOption(DHCP_ACK) \o <<DHCP_OPT_END>>)

\* the frames of SpecType: an OFFER, an ACK, the two NAKs, no frame
TypeFrames ==
  {Frame(a, AREA_P + BOOTP_AREA_LEN, DHCP_SERVER_PORT, TRUE) :
     a \in {Offer, Ack10, Nak, NakThenAck}}
  \cup {NoFrame}

\* the client of a server that also answers out of turn and with NAKs
NextType ==
  \/ \E d \in Deltas : Advance(d, MaxAdvance)
  \/ \E f \in TypeFrames : DhcpStateMachine(f)
  \/ \E o \in CustomOptions, cb \in Callbacks : dhcpAddOptionCallback(o, cb)

SpecType == Init /\ [][NextType]_vars

\* the frames of SpecTicks: an OFFER, an ACK with a lease of 10 s, no frame
TickFrames ==
  {Frame(a, AREA_P + BOOTP_AREA_LEN, DHCP_SERVER_PORT, TRUE) : a \in {Offer, Ack10}}
  \cup {NoFrame}

\* the client driven by ticks alone, long enough for a lease to run out and
\* for the renewal to time out
NextTicks ==
  \/ \E d \in Deltas : Advance(d, MaxTickAdvance)
  \/ \E f \in TickFrames : DhcpStateMachine(f)

SpecTicks == Init /\ [][NextTicks]_vars

\* host names the application passes in SpecHost: none, "node", and names of
\* 31 and of 32 characters
Name4 == <<110, 111, 100, 101>>
Name31 == [i \in 1..(DHCP_HOSTNAME_MAX_LEN - 1) |-> 97]
Name32 == [i \in 1..DHCP_HOSTNAME_MAX_LEN |-> 97]
LongHostNames == {NULL, Name4, Name31, Name32}

\* what may follow hostname[] in memory: a zero octet at once, or one or two
\* non-zero octets before it
HostBeyonds == {<<>>, <<1>>, <<1, 2>>}

\* the frames of SpecHost: an OFFER, an ACK, no frame
HostFrames ==
  {Frame(a, AREA_P + BOOTP_AREA_LEN, DHCP_SERVER_PORT, TRUE) : a \in {Offer, Ack10}}
  \cup {NoFrame}

InitHost == \E after \in HostBeyonds : InitWith(after)

\* the client of an application that sets host names of every length
NextHost ==
  \/ \E d \in Deltas : Advance(d, MaxAdvance)
  \/ \E f \in HostFrames : DhcpStateMachine(f)
  \/ \E h \in LongHostNames : dhcpSetupUpTo(h, MaxSessionCalls)

SpecHost == InitHost /\ [][NextHost]_vars

\* clock step of SpecLive: a quarter of the period 2^32 of millis(), so that
\* the clock runs for ever through four values
LiveDeltas == {<<16384, 0>>}

\* millis() moves on by d; the packet loop calls DhcpStateMachine at least
\* once between two clock steps
Elapse(d) ==
  /\ ~crashed
  /\ last.op # "advance"
  /\ now' = Add32(now, d)
  /\ elapsed' = [timer |-> Later(elapsed.timer, d),
                 lease |-> Later(elapsed.lease, d)]
  /\ last' = [Op("advance", 0) EXCEPT !.restart = last.restart]
  /\ tx' = NoMsg /\ rx' = NoBuf /\ calls' = <<>>
  /\ UNCHANGED <<session, config, options, using_dhcp, gPB, nAdv, nCalls,
                 crashed, beyond>>

\* the steps of the packet loop and of the clock in SpecLive
LiveTick == \E f \in TickFrames : DhcpStateMachine(f)
LiveClock == \E d \in LiveDeltas : Elapse(d)

\* the client run for ever: the application calls dhcpSetup and may register a
\* callback, the packet loop keeps calling DhcpStateMachine with an OFFER, an
\* ACK or no frame, and the clock keeps moving
NextLive ==
  \/ LiveClock
  \/ LiveTick
  \/ \E h \in HostNames : dhcpSetupUpTo(h, MaxLiveCalls)
  \/ \E o \in CustomOptions, cb \in Callbacks :
       dhcpAddOptionCallbackUpTo(o, cb, MaxLiveCalls)

\* a call of DhcpStateMachine by the packet loop, told by the record it leaves
LoopRuns ==
  /\ ~crashed
  /\ \E f \in TickFrames, r \in BOOLEAN :
       last' = [Op("tick", f.len) EXCEPT !.restart = r]

\* loop() runs for as long as the device does: ticks keep occurring and
\* millis() keeps advancing
SpecLive ==
  Init /\ [][NextLive]_vars /\ WF_vars(LiveClock) /\ WF_last(LoopRuns)

TypeOK ==
  /\ dhcpState \in {DHCP_STATE_INIT, DHCP_STATE_SELECTING, DHCP_STATE_REQUESTING,
                    DHCP_STATE_BOUND, DHCP_STATE_RENEWING, DHCP_STATE_RELEASED}
  /\ Len(hostname) = DHCP_HOSTNAME_MAX_LEN
  /\ Len(gPB.area) = AREA_LEN

\* ------------------------------------------------------------ claims
\* a tick of DhcpStateMachine was the last step, with a frame of len > 0
Ticked == last.op = "tick"

\* C1 as stated: a tick in SELECTING or REQUESTING that finds a frame whose
\* transaction id differs from currentXid leaves dhcpState as it was.
C1_Original ==
  [][(/\ dhcpState \in {DHCP_STATE_SELECTING, DHCP_STATE_REQUESTING}
      /\ last'.op = "tick" /\ last'.len > 0
      /\ rx'.xid # currentXid)
     => dhcpState' = dhcpState]_vars

\* C1 amended: such a tick never accepts the frame: it sends nothing, changes
\* no address and no lease, and leaves dhcpState as it was unless the request
\* timeout has passed, in which case the state becomes INIT.
C1_ForeignXidIgnored ==
  [][(/\ dhcpState \in {DHCP_STATE_SELECTING, DHCP_STATE_REQUESTING}
      /\ last'.op = "tick" /\ last'.len > 0
      /\ rx'.xid # currentXid)
     => /\ dhcpState' = IF TimedOut(now, stateTimer) THEN DHCP_STATE_INIT
                         ELSE dhcpState
        /\ tx' = NoMsg
        /\ UNCHANGED <<config, leaseStart, leaseTime, currentXid>>]_vars

\* a REQUESTING tick found a frame with a foreign transaction id and the state
\* stayed REQUESTING
C1_Witness ==
  /\ Ticked /\ last.len > 0
  /\ last.pre = DHCP_STATE_REQUESTING
  /\ rx.xid # currentXid
  /\ dhcpState = DHCP_STATE_REQUESTING

\* the overall timeout the header documents for dhcpSetup: 60 seconds
SetupTimeout == <<0, 60000>>

\* milliseconds between the start of the last operation and now
SinceCall == Sub32(now, last.t)

\* C2: dhcpSetup returns only once the state is BOUND or 60 s have passed since
\* the call, and its result is true exactly if the state is BOUND at return.
C2_SetupBlocksUntilBound ==
  last.op = "dhcpSetup"
  => /\ dhcpState = DHCP_STATE_BOUND \/ Ge32(SinceCall, SetupTimeout)
     /\ last.ret <=> dhcpState = DHCP_STATE_BOUND

\* C3: on a network without frames dhcpSetup returns failure, after the 60 s
\* timeout, and the state is never REQUESTING, BOUND or RENEWING.
C3_SetupFailsWithoutServer ==
  /\ last.op = "dhcpSetup" => ~last.ret /\ Ge32(SinceCall, SetupTimeout)
  /\ dhcpState \notin {DHCP_STATE_REQUESTING, DHCP_STATE_BOUND,
                       DHCP_STATE_RENEWING}

\* ---- a reference decoder of tag-length-value options, independent of the
\* ---- scanners of the client
RECURSIVE DecodeFrom(_, _, _)
\* the options of area from index p on, after those in acc: each with its tag,
\* its value and the index of its tag; ended tells that the End tag was found
\* before the octets ran out
DecodeFrom(area, p, acc) ==
  IF p > Len(area) THEN [opts |-> acc, ended |-> FALSE]
  ELSE IF area[p] = DHCP_OPT_END THEN [opts |-> acc, ended |-> TRUE]
  ELSE IF p + 1 > Len(area) \/ p + 1 + area[p + 1] > Len(area)
  THEN [opts |-> acc, ended |-> FALSE]
  ELSE DecodeFrom(area, p + 2 + area[p + 1],
                  Append(acc, [tag |-> area[p],
                               val |-> SubSeq(area, p + 2, p + 1 + area[p + 1]),
                               at  |-> p]))

\* the options that follow the magic cookie
Decode(area) == DecodeFrom(area, OPT_FIRST, <<>>)

Opt(tag, val) == [tag |-> tag, val |-> val]

\* the decoded options without their positions
Plain(opts) == [i \in 1..Len(opts) |-> Opt(opts[i].tag, opts[i].val)]

\* some option has this tag and every option with this tag has this value
HasOption(opts, tag, val) ==
  /\ \E i \in 1..Len(opts) : opts[i].tag = tag
  /\ \A i \in 1..Len(opts) : opts[i].tag = tag => opts[i].val = val

\* the server addresses and offered addresses of the modelled frames
Servers == {IpServer, IpServer2}
Offered == {IpOffered}

\* the last step was a tick in SELECTING that found a well-formed OFFER of
\* address Y from server S: port 67, the session's id, options ending in End
WellFormedOffer(Y, S) ==
  /\ Ticked /\ last.len >= MIN_DHCP_LEN
  /\ last.pre = DHCP_STATE_SELECTING
  /\ rx.srcPort = DHCP_SERVER_PORT
  /\ rx.xid = currentXid
  /\ rx.yiaddr = Y
  /\ Decode(rx.area).ended
  /\ HasOption(Decode(rx.area).opts, DHCP_OPT_MESSAGE_TYPE, <<DHCP_OFFER>>)
  /\ HasOption(Decode(rx.area).opts, DHCP_OPT_SERVER_IDENTIFIER, S)

\* the frame length passed to the tick reaches past the tags of the
\* message-type and server-identifier options
OfferOptionsInFrame ==
  \A i \in 1..Len(Decode(rx.area).opts) :
    Decode(rx.area).opts[i].tag \in {DHCP_OPT_MESSAGE_TYPE,
                                     DHCP_OPT_SERVER_IDENTIFIER}
    => Off(Decode(rx.area).opts[i].at) < last.len

\* the tick sent a REQUEST for Y naming server S and the state is REQUESTING
RequestSent(Y, S) ==
  /\ dhcpState = DHCP_STATE_REQUESTING
  /\ tx.len > 0 /\ tx.kind = DHCP_REQUEST
  /\ HasOption(Decode(tx.area).opts, DHCP_OPT_REQUESTED_ADDRESS, Y)
  /\ HasOption(Decode(tx.area).opts, DHCP_OPT_SERVER_IDENTIFIER, S)

\* C4 as stated: every well-formed OFFER received in SELECTING, the one passed
\* with len = 80 included, is answered by a REQUEST with option 50 = Y and
\* option 54 = S, and the state becomes REQUESTING.
C4_Original ==
  \A Y \in Offered, S \in Servers : WellFormedOffer(Y, S) => RequestSent(Y, S)

\* C4 amended: a well-formed OFFER whose length reaches past its message-type
\* and server-identifier options is answered by a REQUEST with option 50 = Y
\* and option 54 = S, dhcpip is S and the state becomes REQUESTING, although
\* the REQUEST is built in the buffer the OFFER arrived in.
C4_OfferAnswered ==
  \A Y \in Offered, S \in Servers :
    WellFormedOffer(Y, S) /\ OfferOptionsInFrame
    => RequestSent(Y, S) /\ dhcpip = S

\* an OFFER of full length was answered and the buffer now holds the REQUEST
C4_Witness ==
  /\ WellFormedOffer(IpOffered, IpServer) /\ OfferOptionsInFrame
  /\ dhcpState = DHCP_STATE_REQUESTING
  /\ gPB.yiaddr = IpZero /\ rx.yiaddr = IpOffered
  /\ gPB.area # rx.area

\* the leases of the modelled ACKs in milliseconds
Lease3600ms == <<54, 61056>>

\* the last step was a tick in REQUESTING or RENEWING that found a valid ACK,
\* wholly inside the frame, with subnet mask M, router G and a lease of 3600 s
ValidAck3600(M, G) ==
  /\ Ticked /\ last.len >= MIN_DHCP_LEN
  /\ last.pre \in {DHCP_STATE_REQUESTING, DHCP_STATE_RENEWING}
  /\ rx.srcPort = DHCP_SERVER_PORT
  /\ rx.xid = currentXid
  /\ last.len >= AREA_P + Len(rx.area)
  /\ Decode(rx.area).ended
  /\ HasOption(Decode(rx.area).opts, DHCP_OPT_MESSAGE_TYPE, <<DHCP_ACK>>)
  /\ HasOption(Decode(rx.area).opts, DHCP_OPT_SUBNET_MASK, M)
  /\ HasOption(Decode(rx.area).opts, DHCP_OPT_ROUTERS, G)
  /\ HasOption(Decode(rx.area).opts, DHCP_OPT_LEASE_TIME, LeaseOctets3600)

\* C5: after a tick in REQUESTING or RENEWING that found a valid ACK with
\* subnet mask M, router G and a lease of 3600 s, netmask = M, gwip = G,
\* leaseTime = 3,600,000 ms, leaseStart is the clock of the tick and the state
\* is BOUND.
C5_AckApplied ==
  \A M \in {IpMask}, G \in Servers :
    ValidAck3600(M, G)
    => /\ netmask = M
       /\ gwip = G
       /\ leaseTime = Lease3600ms
       /\ leaseStart = now
       /\ dhcpState = DHCP_STATE_BOUND

\* C6: while the state is BOUND and leaseTime is the infinite sentinel, no tick,
\* at whatever clock value and with whatever frame, moves the state to
\* RENEWING or sends a message; the state and the lease stay as they are.
C6_InfiniteLeaseNeverRenews ==
  [][(/\ dhcpState = DHCP_STATE_BOUND
      /\ leaseTime = DHCP_INFINITE_LEASE
      /\ last'.op = "tick")
     => /\ dhcpState' = DHCP_STATE_BOUND
        /\ tx' = NoMsg
        /\ leaseTime' = DHCP_INFINITE_LEASE]_vars

\* a tick in BOUND under an infinite lease, 2^32 - 1 ms after the lease began
C6_Witness ==
  /\ Ticked /\ last.pre = DHCP_STATE_BOUND
  /\ dhcpState = DHCP_STATE_BOUND
  /\ leaseTime = DHCP_INFINITE_LEASE
  /\ Sub32(now, leaseStart) = <<65535, 65535>>

\* the message type a waiting state expects
ExpectedType(state) ==
  IF state = DHCP_STATE_SELECTING THEN DHCP_OFFER ELSE DHCP_ACK

\* the buffer holds no valid message of the type the state expects
NoExpectedMessage(buf, len, state, xid) ==
  \/ len < MIN_DHCP_LEN
  \/ buf.srcPort # DHCP_SERVER_PORT
  \/ buf.xid # xid
  \/ ~HasOption(Decode(buf.area).opts, DHCP_OPT_MESSAGE_TYPE,
                <<ExpectedType(state)>>)

\* a tick in a waiting state that finds no valid expected message
WaitingTick ==
  /\ dhcpState \in {DHCP_STATE_SELECTING, DHCP_STATE_REQUESTING,
                     DHCP_STATE_RENEWING}
  /\ last'.op = "tick"
  /\ NoExpectedMessage(rx', last'.len, dhcpState, currentXid)

C8_Original ==
  [][(dhcpState = DHCP_STATE_INIT /\ last.restart /\ last'.op = "tick")
     => tx'.kind = DHCP_DISCOVER /\ tx'.xid # currentXid]_vars

\* C8 amended: the INIT tick after a timeout sends a DISCOVER whose
\* transaction id is the value of millis() at that tick; it differs from the
\* id of the previous DISCOVER unless millis() shows the value it showed then.
C8_XidFromClock ==
  [][(dhcpState = DHCP_STATE_INIT /\ last.restart /\ last'.op = "tick")
     => /\ tx'.kind = DHCP_DISCOVER
        /\ tx'.xid = now /\ currentXid' = now
        /\ now # currentXid => tx'.xid # currentXid]_vars

\* a DISCOVER was sent after a timeout-driven restart, 10001 ms after the
\* previous one
C8_Witness ==
  /\ Ticked /\ last.pre = DHCP_STATE_INIT /\ last.restart
  /\ tx.len > 0 /\ tx.kind = DHCP_DISCOVER
  /\ tx.xid = <<0, 10001>>
  /\ dhcpState = DHCP_STATE_SELECTING

\* the codes a DISCOVER or REQUEST asks for in its parameter request list
RequestedCodes(custom) ==
  <<DHCP_OPT_SUBNET_MASK, DHCP_OPT_TIME_OFFSET, DHCP_OPT_ROUTERS,
    DHCP_OPT_TIME_SERVERS, DHCP_OPT_DOMAIN_NAME_SERVERS, DHCP_OPT_NTP_SERVERS,
    DHCP_OPT_DOMAIN_SEARCH_LIST>>
  \o (IF custom # 0 THEN <<custom>> ELSE <<>>)

\* the options message m was encoded from, for host name h and custom option
EncodedOptions(m, h, custom) ==
  <<Opt(DHCP_OPT_MESSAGE_TYPE, <<m.kind>>),
    Opt(DHCP_OPT_CLIENT_IDENTIFIER, <<DHCP_HTYPE_ETHER>> \o mymac)>>
  \o (IF m.kind = DHCP_RELEASE
      THEN <<Opt(DHCP_OPT_SERVER_IDENTIFIER, m.srv)>>
      ELSE (IF StrLen(h) > 0
            THEN <<Opt(DHCP_OPT_HOSTNAME, SubSeq(h, 1, StrLen(h)))>>
            ELSE <<>>)
           \o (IF m.req # NULL
               THEN <<Opt(DHCP_OPT_REQUESTED_ADDRESS, m.req),
                      Opt(DHCP_OPT_SERVER_IDENTIFIER, m.srv)>>
               ELSE <<>>)
           \o <<Opt(DHCP_OPT_PARAMETER_REQUEST_LIST, RequestedCodes(custom))>>)

\* C9: the octets of every message the client sends decode, as
\* tag-length-value options from the magic cookie to the End tag, to the
\* message kind, the transaction id and exactly the options it was encoded
\* from.
C9_RoundTrip ==
  tx.len > 0
  => /\ SubSeq(tx.area, 1, 4) = Cookie
     /\ Decode(tx.area).ended
     /\ Plain(Decode(tx.area).opts)
          = EncodedOptions(tx, hostname, dhcpCustomOptionNum)
     /\ tx.xid = currentXid

\* C10: dhcpRelease, whatever the state it is called in, ends with the state
\* RELEASED and with myip, netmask, broadcastip, gwip, dhcpip and dnsip all
\* zero.
C10_ReleaseClears ==
  last.op = "dhcpRelease"
  => /\ dhcpState = DHCP_STATE_RELEASED
     /\ myip = IpZero /\ netmask = IpZero /\ broadcastip = IpZero
     /\ gwip = IpZero /\ dhcpip = IpZero /\ dnsip = IpZero

\* dhcpRelease was called in REQUESTING with a server address stored, which
\* the RELEASE carries and the configuration no longer holds
C10_Witness ==
  /\ last.op = "dhcpRelease"
  /\ last.pre = DHCP_STATE_REQUESTING
  /\ tx.siaddr = IpServer
  /\ dhcpip = IpZero

\* the lease of 10 s in milliseconds
Lease10ms == <<0, 10000>>

\* the last step was a tick that accepted an ACK lying wholly inside the frame
\* while a callback was registered
AckAcceptedWithCallback ==
  /\ Ticked
  /\ last.pre \in {DHCP_STATE_REQUESTING, DHCP_STATE_RENEWING}
  /\ dhcpState = DHCP_STATE_BOUND
  /\ dhcpCustomOptionCallback # NoCallback
  /\ last.len >= AREA_P + Len(rx.area)
  /\ Decode(rx.area).ended

\* invocation i passed on option o: its tag, its length and its value
PassedOn(i, o) ==
  /\ calls[i].cb = dhcpCustomOptionCallback
  /\ calls[i].option = o.tag
  /\ calls[i].len = Len(o.val)
  /\ calls[i].data = o.val

\* invocation i saw the built-in effect of the option it passed on
EffectSeen(i) ==
  /\ calls[i].option = DHCP_OPT_SUBNET_MASK => calls[i].seen.netmask = calls[i].data
  /\ calls[i].option = DHCP_OPT_ROUTERS => calls[i].seen.gwip = calls[i].data
  /\ calls[i].option = DHCP_OPT_DOMAIN_NAME_SERVERS
     => calls[i].seen.dnsip = calls[i].data
  /\ (calls[i].option = DHCP_OPT_LEASE_TIME /\ calls[i].data = LeaseOctets10)
     => calls[i].seen.leaseTime = Lease10ms

C12_Step ==
  dhcpState \in {DHCP_STATE_RELEASING, DHCP_STATE_RELEASED}
  => /\ last'.op = "tick" => UNCHANGED <<session, config>> /\ tx' = NoMsg
     /\ dhcpState' # dhcpState
        => last'.op = "dhcpSetup" /\ dhcpState' = DHCP_STATE_INIT

\* C12: in RELEASED (and RELEASING) a tick, with whatever frame and clock
\* value, leaves the session and the configuration as they are and sends
\* nothing, and the state changes only by a call of dhcpSetup, to INIT.
C12_ReleasedTerminal == [][C12_Step]_vars

\* a tick in RELEASED found an OFFER with the session's transaction id, after
\* the clock had moved on, and the state is still RELEASED
C12_Witness ==
  /\ Ticked /\ last.len >= MIN_DHCP_LEN
  /\ last.pre = DHCP_STATE_RELEASED
  /\ rx.xid = currentXid /\ rx.srcPort = DHCP_SERVER_PORT
  /\ now # U32Zero
  /\ dhcpState = DHCP_STATE_RELEASED

\* the registration made last
LastReg == last.regs[Len(last.regs)]

\* the codes send_dhcp_message wrote into the parameter request list of
\* message m: the octets between the length octet of option 55 and the End
\* tag that closes the message
WrittenCodes(m) ==
  LET opts == Decode(m.area).opts
      at == (CHOOSE i \in 1..Len(opts) :
               opts[i].tag = DHCP_OPT_PARAMETER_REQUEST_LIST)
  IN  SubSeq(m.area, opts[at].at + 2, Len(m.area) - 1)

\* C13: there is one slot and the last registration wins: after one or more
\* calls of dhcpAddOptionCallback the slot holds the option and the callback
\* of the last call, every callback invocation goes to that callback, and
\* the parameter request list of every DISCOVER or REQUEST sent afterwards
\* holds the seven standard codes followed by that option alone.
C13_LastRegistrationWins ==
  Len(last.regs) >= 1
  => /\ dhcpCustomOptionNum = LastReg.option
     /\ dhcpCustomOptionCallback = LastReg.cb
     /\ \A i \in 1..Len(calls) : calls[i].cb = LastReg.cb
     /\ tx.len > 0 /\ tx.kind # DHCP_RELEASE
        => WrittenCodes(tx) = RequestedCodes(LastReg.option)

\* after two registrations with different options and different callbacks an
\* accepted ACK was passed to a callback
C13_Witness ==
  /\ Len(last.regs) = 2
  /\ last.regs[1].option # last.regs[2].option
  /\ last.regs[1].cb # last.regs[2].cb
  /\ Ticked /\ Len(calls) > 0
  /\ dhcpState = DHCP_STATE_BOUND

\* after two registrations with different options a REQUEST was sent
C13_WitnessSent ==
  /\ Len(last.regs) = 2
  /\ last.regs[1].option # last.regs[2].option
  /\ tx.len > 0 /\ tx.kind = DHCP_REQUEST

\* a tick in a waiting state that finds a frame failing one of the three
\* conditions of the receive filter
C14_FailingFrame ==
  /\ dhcpState \in {DHCP_STATE_SELECTING, DHCP_STATE_REQUESTING,
                     DHCP_STATE_RENEWING}
  /\ last'.op = "tick" /\ last'.len > 0
  /\ \/ last'.len < MIN_DHCP_LEN
     \/ rx'.srcPort # DHCP_SERVER_PORT
     \/ rx'.xid # currentXid

\* C14: a frame that is shorter than 70 octets, or whose source port is not
\* 67, or whose transaction id is not currentXid, never causes SELECTING ->
\* REQUESTING or REQUESTING/RENEWING -> BOUND and never changes the network
\* configuration, the server address or the lease fields.
C14_FilterRejects ==
  [][C14_FailingFrame
     => /\ dhcpState' \notin {DHCP_STATE_REQUESTING, DHCP_STATE_BOUND} \ {dhcpState}
        /\ UNCHANGED <<config, leaseStart, leaseTime>>]_vars

\* the same with the source port compared as the code compares it, by its
\* low octet
C14_LowOctetFilter ==
  [][(/\ dhcpState \in {DHCP_STATE_SELECTING, DHCP_STATE_REQUESTING,
                         DHCP_STATE_RENEWING}
      /\ last'.op = "tick" /\ last'.len > 0
      /\ \/ last'.len < MIN_DHCP_LEN
         \/ rx'.srcPort % 256 # DHCP_SERVER_PORT
         \/ rx'.xid # currentXid)
     => /\ dhcpState' \notin {DHCP_STATE_REQUESTING, DHCP_STATE_BOUND} \ {dhcpState}
        /\ UNCHANGED <<config, leaseStart, leaseTime>>]_vars

\* a tick in BOUND with a finite lease that has run out
C15_RenewalTick ==
  /\ dhcpState = DHCP_STATE_BOUND
  /\ last'.op = "tick"
  /\ leaseTime # DHCP_INFINITE_LEASE
  /\ Ge32(Sub32(now, leaseStart), leaseTime)

\* the tags of the options of message m
TagsOf(m) == {Decode(m.area).opts[i].tag : i \in 1..Len(Decode(m.area).opts)}

\* C15: a tick in BOUND with a finite lease that has run out sends a REQUEST
\* whose ciaddr is the current local address and which carries neither
\* option 50 nor option 54, and the state becomes RENEWING.
C15_RenewalRequest ==
  [][C15_RenewalTick
     => /\ tx'.len > 0 /\ tx'.kind = DHCP_REQUEST
        /\ tx'.ciaddr = myip
        /\ DHCP_OPT_REQUESTED_ADDRESS \notin TagsOf(tx')
        /\ DHCP_OPT_SERVER_IDENTIFIER \notin TagsOf(tx')
        /\ dhcpState' = DHCP_STATE_RENEWING]_vars

\* what the renewal tick does send: a REQUEST with ciaddr = myip that
\* carries option 50 with myip and option 54 with dhcpip
C15_RenewalAsCoded ==
  [][C15_RenewalTick
     => /\ tx'.len > 0 /\ tx'.kind = DHCP_REQUEST
        /\ tx'.ciaddr = myip
        /\ HasOption(Decode(tx'.area).opts, DHCP_OPT_REQUESTED_ADDRESS, myip)
        /\ HasOption(Decode(tx'.area).opts, DHCP_OPT_SERVER_IDENTIFIER, dhcpip)
        /\ dhcpState' = DHCP_STATE_RENEWING]_vars

\* the last step was a tick in REQUESTING or RENEWING that found a valid ACK
\* while no callback had ever been registered
C16_AckWithoutCallback ==
  /\ Ticked /\ last.len >= MIN_DHCP_LEN
  /\ last.pre \in {DHCP_STATE_REQUESTING, DHCP_STATE_RENEWING}
  /\ rx.srcPort = DHCP_SERVER_PORT
  /\ rx.xid = currentXid
  /\ Decode(rx.area).ended
  /\ HasOption(Decode(rx.area).opts, DHCP_OPT_MESSAGE_TYPE, <<DHCP_ACK>>)
  /\ last.regs = <<>>

\* C16: when no callback has ever been registered, processing a valid ACK in
\* REQUESTING or RENEWING invokes no callback, applies the built-in options
\* and reaches BOUND without a fault.
C16_NoCallbackNoFault ==
  C16_AckWithoutCallback
  => /\ calls = <<>>
     /\ ~crashed
     /\ dhcpState = DHCP_STATE_BOUND
     /\ \A i \in 1..Len(Decode(rx.area).opts) :
          Decode(rx.area).opts[i].tag = DHCP_OPT_SUBNET_MASK
          => netmask = Decode(rx.area).opts[i].val

\* a tick in a waiting state that finds a frame whose length ends before the
\* first option
C17_AreaBeyondFrame ==
  /\ dhcpState \in {DHCP_STATE_SELECTING, DHCP_STATE_REQUESTING,
                     DHCP_STATE_RENEWING}
  /\ last'.op = "tick"
  /\ last'.len > 0 /\ last'.len <= Off(OPT_FIRST)

\* C17: when the option area of a received frame lies beyond the frame
\* length, no option is read from it: the frame is taken neither for an
\* OFFER nor for an ACK, and the network configuration, the server address
\* and the lease fields keep their values.
C17_FailClosed ==
  [][C17_AreaBeyondFrame
     => /\ dhcpState' \notin {DHCP_STATE_REQUESTING, DHCP_STATE_BOUND} \ {dhcpState}
        /\ tx' = NoMsg
        /\ UNCHANGED <<config, leaseStart, leaseTime>>]_vars

\* the index in the octets of message m of the tag of option 55
RequestListAt(m) ==
  LET opts == Decode(m.area).opts
  IN  opts[CHOOSE i \in 1..Len(opts) :
             opts[i].tag = DHCP_OPT_PARAMETER_REQUEST_LIST].at

\* C18: in every DISCOVER and REQUEST option 55 declares as its length the
\* number of codes written, its value is 1, 2, 3, 4, 6, 42, 119 followed by
\* the registered custom tag if there is one, and the octet after the value
\* is the End tag.
C18_RequestListLength ==
  tx.len > 0 /\ tx.kind \in {DHCP_DISCOVER, DHCP_REQUEST}
  => LET at == RequestListAt(tx)
         declared == tx.area[at + 1]
     IN  /\ WrittenCodes(tx) = RequestedCodes(dhcpCustomOptionNum)
         /\ declared = Len(WrittenCodes(tx))
         /\ Rd(tx.area, at + 2 + declared) = DHCP_OPT_END
         /\ Len(tx.area) = at + 2 + declared

\* what the encoder does write: the codes as listed, a declared length one
\* more than their number, and one End tag, which the declared length takes
\* into the value
C18_AsCoded ==
  tx.len > 0 /\ tx.kind \in {DHCP_DISCOVER, DHCP_REQUEST}
  => LET at == RequestListAt(tx)
         declared == tx.area[at + 1]
     IN  /\ WrittenCodes(tx) = RequestedCodes(dhcpCustomOptionNum)
         /\ declared = Len(WrittenCodes(tx)) + 1
         /\ tx.area[at + 1 + declared] = DHCP_OPT_END
         /\ Len(tx.area) = at + 1 + declared

\* the octets of the message type option of message m
TypeOctets(m) == SubSeq(m.area, Len(Cookie) + 1, Len(Cookie) + 3)

\* C19: the message type option (tag 53, length 1) of a message sent is
\* RELEASE exactly when dhcpRelease sent it, DISCOVER exactly when a tick
\* built it while the state was INIT, and REQUEST when a tick built it in
\* another state (offer handling in SELECTING, renewal in BOUND).
C19_MessageType ==
  tx.len > 0
  => /\ TypeOctets(tx)[1] = DHCP_OPT_MESSAGE_TYPE
     /\ TypeOctets(tx)[2] = 1
     /\ TypeOctets(tx)[3] = DHCP_RELEASE <=> last.op = "dhcpRelease"
     /\ TypeOctets(tx)[3] = DHCP_DISCOVER
          <=> Ticked /\ last.pre = DHCP_STATE_INIT
     /\ TypeOctets(tx)[3] = DHCP_REQUEST
          <=> Ticked /\ last.pre \in {DHCP_STATE_SELECTING, DHCP_STATE_BOUND}
     /\ TypeOctets(tx)[3] = tx.kind

\* a tick in INIT sent a DISCOVER and the state became SELECTING
C19_Witness ==
  /\ Ticked /\ last.pre = DHCP_STATE_INIT
  /\ tx.len > 0 /\ TypeOctets(tx) = <<DHCP_OPT_MESSAGE_TYPE, 1, DHCP_DISCOVER>>
  /\ dhcpState = DHCP_STATE_SELECTING

\* a REQUEST was sent by the renewal tick
C19_WitnessRenewal ==
  /\ Ticked /\ last.pre = DHCP_STATE_BOUND
  /\ tx.len > 0 /\ TypeOctets(tx) = <<DHCP_OPT_MESSAGE_TYPE, 1, DHCP_REQUEST>>

\* a RELEASE was sent by dhcpRelease
C19_WitnessRelease ==
  /\ last.op = "dhcpRelease"
  /\ tx.len > 0 /\ TypeOctets(tx) = <<DHCP_OPT_MESSAGE_TYPE, 1, DHCP_RELEASE>>

\* the RELEASE sent by a call of dhcpRelease carries, as ciaddr, as siaddr and
\* as option 54, the values myip and dhcpip had before the call
C20_CarriesConfigured ==
  /\ tx'.len > 0 /\ tx'.kind = DHCP_RELEASE
  /\ tx'.ciaddr = myip
  /\ tx'.siaddr = dhcpip
  /\ HasOption(Decode(tx'.area).opts, DHCP_OPT_SERVER_IDENTIFIER, dhcpip)

\* C20 as stated: the RELEASE carries the client address and the server
\* identifier configured immediately before the call, and a release from
\* BOUND never transmits an all-zero client address or server identifier.
C20_Original ==
  [][last'.op = "dhcpRelease"
     => /\ C20_CarriesConfigured
        /\ dhcpState = DHCP_STATE_BOUND
           => tx'.ciaddr # IpZero /\ tx'.siaddr # IpZero]_vars

\* C20 amended: the RELEASE carries the client address and the server
\* identifier configured immediately before the call, in whatever state it
\* is made, although the call leaves both fields zero; a field of the
\* message is all-zero exactly when the configured field was already
\* all-zero before the call.
C20_ReleaseCarriesConfigured ==
  [][last'.op = "dhcpRelease"
     => /\ C20_CarriesConfigured
        /\ myip' = IpZero /\ dhcpip' = IpZero
        /\ tx'.ciaddr = IpZero <=> myip = IpZero
        /\ tx'.siaddr = IpZero <=> dhcpip = IpZero]_vars

\* a release from BOUND sent the address and the server of the lease and
\* left both fields zero
C20_Witness ==
  /\ last.op = "dhcpRelease"
  /\ last.pre = DHCP_STATE_BOUND
  /\ tx.len > 0 /\ tx.ciaddr # IpZero /\ tx.siaddr # IpZero
  /\ HasOption(Decode(tx.area).opts, DHCP_OPT_SERVER_IDENTIFIER, tx.siaddr)
  /\ myip = IpZero /\ dhcpip = IpZero

\* a release from BOUND sent an all-zero server identifier
C20_WitnessZeroServer ==
  /\ last.op = "dhcpRelease"
  /\ last.pre = DHCP_STATE_BOUND
  /\ tx.len > 0 /\ tx.ciaddr # IpZero /\ tx.siaddr = IpZero

\* a tick in BOUND whose lease is infinite or has not run out
C21_IdleTick ==
  /\ dhcpState = DHCP_STATE_BOUND
  /\ last'.op = "tick"
  /\ \/ leaseTime = DHCP_INFINITE_LEASE
     \/ ~Ge32(Sub32(now, leaseStart), leaseTime)

\* C21: a tick in BOUND whose lease is infinite or has not yet run out is a
\* no-op whatever frame it finds: state, configuration, transaction id, state
\* timer, lease start and lease duration are unchanged and nothing is sent.
C21_BoundNoOp ==
  [][C21_IdleTick
     => /\ UNCHANGED <<dhcpState, currentXid, stateTimer, leaseStart, leaseTime>>
        /\ UNCHANGED config
        /\ tx' = NoMsg /\ calls' = <<>>]_vars

\* a tick in BOUND, 10001 ms into a lease of 3600 s, found an ACK with the
\* session's transaction id and left the state BOUND
C21_Witness ==
  /\ Ticked /\ last.pre = DHCP_STATE_BOUND
  /\ leaseTime = Lease3600ms
  /\ Sub32(now, leaseStart) = <<0, 10001>>
  /\ last.len >= MIN_DHCP_LEN
  /\ rx.xid = currentXid /\ rx.srcPort = DHCP_SERVER_PORT
  /\ HasOption(Decode(rx.area).opts, DHCP_OPT_MESSAGE_TYPE, <<DHCP_ACK>>)
  /\ dhcpState = DHCP_STATE_BOUND

\* a tick in BOUND with an infinite lease, after the clock moved on, left the
\* state BOUND
C21_WitnessInfinite ==
  /\ Ticked /\ last.pre = DHCP_STATE_BOUND
  /\ leaseTime = DHCP_INFINITE_LEASE
  /\ now # leaseStart
  /\ dhcpState = DHCP_STATE_BOUND

\* a tick in BOUND with a finite lease
C22_LeaseTick ==
  /\ dhcpState = DHCP_STATE_BOUND
  /\ last'.op = "tick"
  /\ leaseTime # DHCP_INFINITE_LEASE

\* C22 as stated: as long as less than 2^32 ms of real time have passed
\* since the timer was started, also when the counter has wrapped since, a
\* waiting tick times out exactly when at least 10000 ms of real time have
\* passed, and a tick in BOUND renews exactly when at least one lease
\* duration of real time has passed.
C22_Original ==
  [][/\ (WaitingTick /\ ~elapsed.timer.over)
        => (dhcpState' = DHCP_STATE_INIT
            <=> Ge32(elapsed.timer.ms, <<0, 10000>>))
     /\ (C22_LeaseTick /\ ~elapsed.lease.over)
        => (dhcpState' = DHCP_STATE_RENEWING
            <=> Ge32(elapsed.lease.ms, leaseTime))]_vars

\* C22 amended: the same with the timeout as the code has it, after more
\* than 10000 ms of real time.
C22_WrapTolerant ==
  [][/\ (WaitingTick /\ ~elapsed.timer.over)
        => (dhcpState' = DHCP_STATE_INIT
            <=> Gt32(elapsed.timer.ms, <<0, 10000>>))
     /\ (C22_LeaseTick /\ ~elapsed.lease.over)
        => (dhcpState' = DHCP_STATE_RENEWING
            <=> Ge32(elapsed.lease.ms, leaseTime))]_vars

\* a timer started 10001 ms before the counter wrapped to zero has expired at
\* the tick after the wrap
C22_Witness ==
  /\ Ticked /\ last.pre = DHCP_STATE_SELECTING
  /\ stateTimer = <<65535, 55535>>
  /\ now = U32Zero
  /\ elapsed.timer = [ms |-> <<0, 10001>>, over |-> FALSE]
  /\ dhcpState = DHCP_STATE_INIT

\* a lease of 10 s started 10001 ms before the wrap is renewed at the tick
\* after the wrap
C22_WitnessLease ==
  /\ Ticked /\ last.pre = DHCP_STATE_BOUND
  /\ leaseStart = <<65535, 55535>>
  /\ now = U32Zero
  /\ elapsed.lease = [ms |-> <<0, 10001>>, over |-> FALSE]
  /\ dhcpState = DHCP_STATE_RENEWING

\* the 32-bit value of 4 big-endian octets
BigEndian(o) == <<o[1] * 256 + o[2], o[3] * 256 + o[4]>>

\* the whole seconds in ms milliseconds, and the milliseconds left over
Seconds(ms) ==
  <<ms[1] \div 1000, ((ms[1] % 1000) * H16 + ms[2]) \div 1000>>
MillisLeft(ms) == ((ms[1] % 1000) * H16 + ms[2]) % 1000

\* the last step was a tick in REQUESTING or RENEWING that accepted an ACK
\* whose option tag holds the 4 octets o
C23_AckWithLease(tag, o) ==
  /\ Ticked /\ last.len >= MIN_DHCP_LEN
  /\ last.pre \in {DHCP_STATE_REQUESTING, DHCP_STATE_RENEWING}
  /\ dhcpState = DHCP_STATE_BOUND
  /\ rx.srcPort = DHCP_SERVER_PORT /\ rx.xid = currentXid
  /\ Decode(rx.area).ended
  /\ HasOption(Decode(rx.area).opts, DHCP_OPT_MESSAGE_TYPE, <<DHCP_ACK>>)
  /\ HasOption(Decode(rx.area).opts, tag, o)

\* C23: for every lease value L other than 0xFFFFFFFF received in option 51
\* or 58 the stored lease duration is L x 1000 ms, and 0xFFFFFFFF is stored
\* unchanged.
C23_LeaseTimesThousand ==
  \A tag \in {DHCP_OPT_LEASE_TIME, DHCP_OPT_RENEWAL_TIME}, o \in LeaseValues :
    C23_AckWithLease(tag, o)
    => IF BigEndian(o) = DHCP_INFINITE_LEASE
       THEN leaseTime = DHCP_INFINITE_LEASE
       ELSE Seconds(leaseTime) = BigEndian(o) /\ MillisLeft(leaseTime) = 0

\* the same for the lease values whose milliseconds fit 32 bits
C23_LeaseThatFits ==
  \A tag \in {DHCP_OPT_LEASE_TIME, DHCP_OPT_RENEWAL_TIME},
     o \in LeaseValues \ {LeaseOctetsOver} :
    C23_AckWithLease(tag, o)
    => IF BigEndian(o) = DHCP_INFINITE_LEASE
       THEN leaseTime = DHCP_INFINITE_LEASE
       ELSE Seconds(leaseTime) = BigEndian(o) /\ MillisLeft(leaseTime) = 0

\* the value of the host name option of message m, if it has one
HostnameValues(m) ==
  {Decode(m.area).opts[i].val :
     i \in {j \in 1..Len(Decode(m.area).opts) :
              Decode(m.area).opts[j].tag = DHCP_OPT_HOSTNAME}}

\* C24: after dhcpSetup with any host name or none, the stored host name is a
\* terminated string inside its 32 octets, and the host name option of every
\* later message is at most 32 octets long and holds only octets of the
\* stored host name.
C24_HostnameBounded ==
  nCalls > 0
  => /\ \E i \in 1..DHCP_HOSTNAME_MAX_LEN : hostname[i] = 0
     /\ tx.len > 0 /\ tx.kind # DHCP_RELEASE
        => \A v \in HostnameValues(tx) :
             /\ Len(v) <= DHCP_HOSTNAME_MAX_LEN
             /\ v = SubSeq(hostname, 1, Len(v))

\* the same for host names of at most 31 characters
C24_ShortNames ==
  (nCalls > 0 /\ StrLen(hostname) < DHCP_HOSTNAME_MAX_LEN)
  => (tx.len > 0 /\ tx.kind # DHCP_RELEASE
      => \A v \in HostnameValues(tx) :
           /\ Len(v) = StrLen(hostname)
           /\ v = SubSeq(hostname, 1, Len(v)))

\* a message sent after dhcpSetup with a name of 32 characters carries a host
\* name option of more than 32 octets
C24_WitnessOverread ==
  /\ nCalls > 0 /\ tx.len > 0
  /\ \E v \in HostnameValues(tx) : Len(v) > DHCP_HOSTNAME_MAX_LEN

\* the buffer the step leaves in rx holds option 53 = ACK
C25_AckInBuffer ==
  /\ last'.op = "tick"
  /\ dhcpState \in {DHCP_STATE_REQUESTING, DHCP_STATE_RENEWING}
  /\ last'.len >= MIN_DHCP_LEN
  /\ rx'.srcPort = DHCP_SERVER_PORT
  /\ rx'.xid = currentXid
  /\ HasOption(Decode(rx'.area).opts, DHCP_OPT_MESSAGE_TYPE, <<DHCP_ACK>>)

\* the received frame reaches past the value of its message type option
C25_TypeInFrame ==
  \A i \in 1..Len(Decode(rx'.area).opts) :
    Decode(rx'.area).opts[i].tag = DHCP_OPT_MESSAGE_TYPE
    => Off(Decode(rx'.area).opts[i].at + 2) < last'.len

\* C25: BOUND is entered only by a tick in REQUESTING or RENEWING that
\* received a valid ACK with the current transaction id: a frame of at least
\* 70 octets from port 67 with that id whose own octets hold option 53 = ACK.
\* No other tick, no timeout and no call of dhcpSetup or dhcpRelease
\* produces BOUND.
C25_BoundOnlyByAck ==
  [][(dhcpState # DHCP_STATE_BOUND /\ dhcpState' = DHCP_STATE_BOUND)
     => (C25_AckInBuffer /\ C25_TypeInFrame)]_vars

\* the same with the ACK read where the code reads it, in the buffer,
\* whether or not the received frame reaches that far
C25_AsCoded ==
  [][(dhcpState # DHCP_STATE_BOUND /\ dhcpState' = DHCP_STATE_BOUND)
     => C25_AckInBuffer]_vars

\* one step and the transaction id: it changes only by a tick in INIT, and
\* every message sent carries the id the session has after the step,
\* which for a REQUEST and a RELEASE is the id it had before
C26_Step ==
  /\ currentXid' # currentXid => dhcpState = DHCP_STATE_INIT /\ last'.op = "tick"
  /\ tx'.len > 0 => tx'.xid = currentXid'
  /\ tx'.len > 0 /\ tx'.kind # DHCP_DISCOVER => tx'.xid = currentXid

\* C26: the transaction id changes only on a tick in INIT: the REQUEST sent
\* after an OFFER and the renewal REQUEST carry the id of the DISCOVER of
\* that acquisition, and OFFER and ACK handling, timeouts, dhcpSetup and
\* dhcpRelease leave it unchanged.
C26_XidOnlyAtInit == [][C26_Step]_vars

\* the renewal REQUEST, sent 10001 ms after the DISCOVER, carries the
\* transaction id the DISCOVER took from the clock
C26_Witness ==
  /\ Ticked /\ last.pre = DHCP_STATE_BOUND
  /\ tx.len > 0 /\ tx.kind = DHCP_REQUEST
  /\ tx.xid = currentXid
  /\ now # currentXid
  /\ dhcpState = DHCP_STATE_RENEWING

\* the step is a tick in REQUESTING or RENEWING that accepts an ACK
C27_AckAccepted ==
  /\ last'.op = "tick"
  /\ dhcpState \in {DHCP_STATE_REQUESTING, DHCP_STATE_RENEWING}
  /\ dhcpState' = DHCP_STATE_BOUND
  /\ HasOption(Decode(rx'.area).opts, DHCP_OPT_MESSAGE_TYPE, <<DHCP_ACK>>)

\* the accepted frame carries option 51 or option 58
C27_CarriesLease ==
  \/ DHCP_OPT_LEASE_TIME \in TagsOf(rx')
  \/ DHCP_OPT_RENEWAL_TIME \in TagsOf(rx')

\* the step is a tick in REQUESTING or RENEWING that finds a valid ACK with
\* neither option
C27_AckWithoutLease ==
  /\ last'.op = "tick"
  /\ dhcpState \in {DHCP_STATE_REQUESTING, DHCP_STATE_RENEWING}
  /\ last'.len >= MIN_DHCP_LEN
  /\ rx'.srcPort = DHCP_SERVER_PORT /\ rx'.xid = currentXid
  /\ HasOption(Decode(rx'.area).opts, DHCP_OPT_MESSAGE_TYPE, <<DHCP_ACK>>)
  /\ ~C27_CarriesLease

\* one step and the lease duration
C27_Step ==
  /\ leaseTime' # leaseTime => C27_AckAccepted /\ C27_CarriesLease
  /\ C27_AckWithoutLease
     => dhcpState' = DHCP_STATE_BOUND /\ leaseTime' = leaseTime
  /\ (dhcpState = DHCP_STATE_BOUND /\ leaseTime = U32Zero /\ last'.op = "tick")
     => /\ tx'.len > 0 /\ tx'.kind = DHCP_REQUEST
        /\ dhcpState' = DHCP_STATE_RENEWING

\* the same for ticks that do not fault on a null callback
C27_StepCompleted ==
  /\ leaseTime' # leaseTime => C27_AckAccepted /\ C27_CarriesLease
  /\ (C27_AckWithoutLease /\ ~crashed')
     => dhcpState' = DHCP_STATE_BOUND /\ leaseTime' = leaseTime
  /\ (dhcpState = DHCP_STATE_BOUND /\ leaseTime = U32Zero /\ last'.op = "tick")
     => /\ tx'.len > 0 /\ tx'.kind = DHCP_REQUEST
        /\ dhcpState' = DHCP_STATE_RENEWING

\* C27: the lease duration is changed only by an accepted ACK that carries
\* option 51 or 58; an accepted ACK with neither enters BOUND with the lease
\* duration as it was, which is 0 before any lease was granted, and the next
\* tick in BOUND then sends a renewal REQUEST at once.
C27_LeaseOnlyByOption == [][C27_Step]_vars

\* what holds of every tick that completes
C27_WhenTickCompletes == [][C27_StepCompleted]_vars

\* with a callback registered, the first ACK carried no lease, the state
\* became BOUND with a lease duration of 0, and the next tick, at the same
\* clock value, sent the renewal REQUEST
C27_Witness ==
  /\ Ticked /\ last.pre = DHCP_STATE_BOUND
  /\ dhcpCustomOptionCallback # NoCallback
  /\ leaseTime = U32Zero
  /\ now = leaseStart
  /\ tx.len > 0 /\ tx.kind = DHCP_REQUEST
  /\ dhcpState = DHCP_STATE_RENEWING

\* the step is a tick in a waiting state whose frame passes the length, port
\* and transaction id check and has message type t
C28_FrameOfType(t) ==
  /\ dhcpState \in {DHCP_STATE_SELECTING, DHCP_STATE_REQUESTING,
                     DHCP_STATE_RENEWING}
  /\ last'.op = "tick"
  /\ last'.len >= MIN_DHCP_LEN
  /\ rx'.srcPort = DHCP_SERVER_PORT /\ rx'.xid = currentXid
  /\ Decode(rx'.area).ended
  /\ HasOption(Decode(rx'.area).opts, DHCP_OPT_MESSAGE_TYPE, <<t>>)

\* the step does what a tick without a frame does: nothing, or INIT after
\* the timeout
C28_Ignored ==
  /\ dhcpState' = IF Gt32(Sub32(now, stateTimer), <<0, 10000>>)
                  THEN DHCP_STATE_INIT ELSE dhcpState
  /\ tx' = NoMsg
  /\ UNCHANGED <<config, currentXid, stateTimer, leaseStart, leaseTime>>

\* C28: a frame that passes the check but whose message type is not the one
\* the state expects (ACK or NAK in SELECTING, OFFER or NAK in REQUESTING or
\* RENEWING) causes no transition and no configuration change; a NAK does not
\* restart the acquisition, only the timeout does.
C28_UnexpectedTypeIgnored ==
  [][\A t \in {DHCP_OFFER, DHCP_ACK, DHCP_NAK} :
       (C28_FrameOfType(t) /\ t # ExpectedType(dhcpState)) => C28_Ignored]_vars

\* the same for frames that hold only zero octets after their End tag
C28_NothingAfterEnd ==
  [][\A t \in {DHCP_OFFER, DHCP_ACK, DHCP_NAK} :
       (/\ C28_FrameOfType(t) /\ t # ExpectedType(dhcpState)
        /\ rx'.area # NakThenAck)
       => C28_Ignored]_vars

\* one step and the local address: it changes only to zero by a tick in INIT
\* or by a tick in REQUESTING or RENEWING that accepts an ACK
C29_Step ==
  myip' # myip
  => /\ last'.op = "tick"
     /\ \/ dhcpState = DHCP_STATE_INIT /\ myip' = IpZero
        \/ /\ dhcpState \in {DHCP_STATE_REQUESTING, DHCP_STATE_RENEWING}
           /\ dhcp_received_message_type(rx', last'.len, DHCP_ACK, currentXid)
           /\ myip' = rx'.yiaddr

\* C29: in every state reached by ticks alone the local address is 0.0.0.0
\* whenever the state is SELECTING or REQUESTING.
C29_ZeroWhileAcquiring ==
  dhcpState \in {DHCP_STATE_SELECTING, DHCP_STATE_REQUESTING} => myip = IpZero

\* the address is zeroed on the INIT tick and set again only when an ACK is
\* accepted
C29_AddressChanges == [][C29_Step]_vars

\* the same while the device has not faulted on a null callback
C29_WhileRunning ==
  (~crashed /\ dhcpState \in {DHCP_STATE_SELECTING, DHCP_STATE_REQUESTING})
  => myip = IpZero

\* INIT was re-entered after a lease and a renewal that timed out, and the
\* INIT tick zeroed the address of that lease
C29_Witness ==
  /\ Ticked /\ last.pre = DHCP_STATE_INIT
  /\ last.restart
  /\ leaseTime = Lease10ms
  /\ gwip = IpServer
  /\ myip = IpZero
  /\ dhcpState = DHCP_STATE_SELECTING

\* the machine is waiting for a message
C30_Waiting ==
  dhcpState \in {DHCP_STATE_SELECTING, DHCP_STATE_REQUESTING,
                 DHCP_STATE_RENEWING}

\* the last step was a tick that gave up waiting: no valid answer had been
\* delivered within the request timeout
C30_TimedOut ==
  /\ Ticked
  /\ last.pre \in {DHCP_STATE_SELECTING, DHCP_STATE_REQUESTING,
                    DHCP_STATE_RENEWING}
  /\ dhcpState = DHCP_STATE_INIT

\* dhcpSetup has just started the client
C30_Started == last.op = "dhcpSetup"

\* C30: if ticks keep occurring and the clock keeps advancing, a client
\* started with dhcpSetup whose DISCOVER and REQUEST are answered before the
\* timeout (no tick ever gives up waiting) eventually reaches BOUND, and from
\* SELECTING, REQUESTING or RENEWING the machine always eventually reaches
\* BOUND or INIT.
C30_EventuallyBound ==
  /\ C30_Started ~> (dhcpState = DHCP_STATE_BOUND \/ C30_TimedOut)
  /\ C30_Waiting ~> (dhcpState \in {DHCP_STATE_BOUND, DHCP_STATE_INIT})

\* the same for a device that does not fault on a null callback
C30_UnlessFault ==
  /\ C30_Started ~> (dhcpState = DHCP_STATE_BOUND \/ C30_TimedOut \/ crashed)
  /\ C30_Waiting ~> (dhcpState \in {DHCP_STATE_BOUND, DHCP_STATE_INIT} \/ crashed)

\* a started client reached BOUND, with a callback registered, without any
\* tick that gave up waiting since its start
C30_Witness ==
  /\ Ticked /\ last.pre = DHCP_STATE_REQUESTING
  /\ using_dhcp
  /\ dhcpCustomOptionCallback # NoCallback
  /\ dhcpState = DHCP_STATE_BOUND

====
